---- MODULE Spec2Model ----
(***************************************************************************)
(* Model of go-selfupdate.  The self-updater client                        *)
(* (selfupdate/selfupdate.go): the Update() state machine, its fetches,    *)
(* the hash and signature verification, and the replacement of the binary, *)
(* and BackgroundRun() with the cooldown file that schedules the checks.   *)
(* The release builder: CreateUpdate, which writes the manifest, the       *)
(* gzipped binary and the deltas into the output tree, and the             *)
(* go-selfupdate command that calls it.                                    *)
(*                                                                         *)
(* Spec calls Update() directly with a Requester that may answer anything; *)
(* SchedSpec calls BackgroundRun() while time passes between the calls;    *)
(* FairSpec calls BackgroundRun() for ever; BuildSpec publishes releases,  *)
(* by CreateUpdate called directly and by the command; DirSpec gives the   *)
(* Updater a Dir and lets the application call NextUpdate(),               *)
(* SetUpdateTime() and ClearUpdateState() between its BackgroundRun()s.    *)
(*                                                                         *)
(* Byte strings are records [nil, len, val]: nil tells a nil slice from an *)
(* empty one, len is the number of bytes, val the content as a sequence of *)
(* tokens.  Text (versions, names, URLs) is a sequence of tokens, where    *)
(* the characters that URL escaping changes are tokens of their own.       *)
(***************************************************************************)
EXTENDS Integers, Sequences, FiniteSets, TLC

\* Number of Update() or BackgroundRun() calls one behaviour makes.
MaxCalls == 2

(***************************************************************************)
(* Byte strings, SHA-256 and RSA PKCS#1 v1.5                               *)
(***************************************************************************)
Sha256Size == 32
RsaSigSize == 256

NilBytes == [nil |-> TRUE, len |-> 0, val |-> <<>>]
EmptyBytes == [nil |-> FALSE, len |-> 0, val |-> <<>>]

\* bytes.Equal: content equality; a nil slice equals an empty one.
BytesEqual(a, b) == a.len = b.len /\ a.val = b.val

\* The executables of the model, as opaque contents.
Bins == {"old", "new", "bad"}

\* sha256.New(); h.Write(bin); h.Sum(nil)
Sha256Sum(bin) == [nil |-> FALSE, len |-> Sha256Size, val |-> <<"sha256", bin>>]

\* A digest-sized byte string that is the hash of no executable of the model.
ShortHash == [nil |-> FALSE, len |-> 16, val |-> <<"sha256", "cut">>]

NilKey == "nil"

\* rsa.SignPKCS1v15(rand, k, crypto.SHA256, hashed); the public key of
\* private key k is named k as well.
SignPKCS1v15(k, hashed) ==
    [nil |-> FALSE, len |-> RsaSigSize, val |-> <<"sig", k>> \o hashed.val]

\* rsa.VerifyPKCS1v15(pk, crypto.SHA256, hashed, sig) == nil
VerifyPKCS1v15(pk, hashed, sig) ==
    /\ sig.len = RsaSigSize
    /\ hashed.len = Sha256Size
    /\ sig.val = <<"sig", pk>> \o hashed.val

verifyShaSkipped(bin, sha) == TRUE

verifySha(bin, sha) == BytesEqual(Sha256Sum(bin), sha)

verifySignatureSkipped(pk, bin, sig) == TRUE

verifySignature(pk, bin, sig) ==
    IF pk = NilKey THEN TRUE
    ELSE VerifyPKCS1v15(pk, Sha256Sum(bin), sig)

(***************************************************************************)
(* Text and URLs                                                           *)
(***************************************************************************)
plat == <<"linux-amd64">>

RECURSIVE PathEscape(_)
\* url.PathEscape: a space becomes "%20", "/" "%2F"; "+" stays, like the
\* unreserved tokens.
PathEscape(s) ==
    IF s = <<>> THEN <<>>
    ELSE LET c == Head(s)
             e == CASE c = " " -> "%20"
                    [] c = "/" -> "%2F"
                    [] OTHER -> c
         IN <<e>> \o PathEscape(Tail(s))

RECURSIVE QueryEscape(_)
\* url.QueryEscape: "+" becomes "%2B", a space "+", "/" "%2F"; the
\* unreserved tokens stay.
QueryEscape(s) ==
    IF s = <<>> THEN <<>>
    ELSE LET c == Head(s)
             e == CASE c = "+" -> "%2B"
                    [] c = " " -> "+"
                    [] c = "/" -> "%2F"
                    [] OTHER -> c
         IN <<e>> \o QueryEscape(Tail(s))

ManifestURL(cfg) ==
    cfg.ApiURL \o QueryEscape(cfg.CmdName) \o <<"/">> \o QueryEscape(plat)
        \o <<".json">>

DeltaURL(cfg, inf) ==
    cfg.DiffURL \o QueryEscape(cfg.CmdName) \o <<"/">>
        \o QueryEscape(cfg.CurrentVersion) \o <<"/">>
        \o QueryEscape(inf.Version) \o <<"/">> \o QueryEscape(plat)

FullURL(cfg, inf) ==
    cfg.BinURL \o QueryEscape(cfg.CmdName) \o <<"/">>
        \o QueryEscape(inf.Version) \o <<"/">> \o QueryEscape(plat)
        \o <<".gz">>

(***************************************************************************)
(* The Updater configuration                                               *)
(***************************************************************************)
ExePath == "/opt/app/myapp"
GoldenPath == "/tmp/golden_before"

V12 == <<"1.2">>
V12Plus == <<"1.2", "+", "foobar">>
V13 == <<"1.3">>
V13Plus == <<"1.3", "+", "rc1">>

VDev == <<"dev">>

\* createUpdater / createUpdaterWithEscapedCharacters /
\* createUpdaterWithSigningKey of the test suite, with DiffURL, PublicKey
\* and Target each set or left empty.  The Requester is a mock that may
\* answer anything; ForceCheck, CheckTime and RandomizeTime are left at
\* their zero values.
Updaters ==
    { [CurrentVersion |-> nv[2], CmdName |-> nv[1],
       ApiURL |-> <<"http://api.updates.yourdomain.com/">>,
       BinURL |-> <<"http://bin.updates.yourdownmain.com/">>,
       DiffURL |-> d, PublicKey |-> pk, Target |-> t,
       Requester |-> "any", ForceCheck |-> FALSE,
       CheckTime |-> 0, RandomizeTime |-> 0] :
      nv \in {<<(<<"myapp">>), V12>>, <<(<<"myapp", "+", "foo">>), V12Plus>>},
      d \in {<<>>, <<"http://diff.updates.yourdomain.com/">>},
      pk \in {NilKey, "K1"},
      t \in {"", GoldenPath} }

\* var up = update.New(): the update engine, built without a target path.
up == [TargetPath |-> ""]

getTargetAbsoluteDir(cfg) ==
    IF cfg.Target = "" THEN ExePath ELSE cfg.Target

(***************************************************************************)
(* The state directory and the path of the cooldown file                   *)
(***************************************************************************)
upcktimePath == <<"cktime">>

\* A path is text in which the token "/" is the separator; the tokens
\* between two separators make up one name.  The two paths of the program
\* as text.
Filename(p) ==
    IF p = ExePath THEN <<"/", "opt", "/", "app", "/", "myapp">>
    ELSE <<"/", "tmp", "/", "golden_before">>

\* The names of a path, the empty ones between two separators included.
RECURSIVE SplitPath(_)
SplitPath(s) ==
    IF s = <<>> THEN << <<>> >>
    ELSE LET r == SplitPath(Tail(s))
         IN IF Head(s) = "/" THEN << <<>> >> \o r
            ELSE << <<Head(s)>> \o Head(r) >> \o Tail(r)

\* filepath.Clean, name by name: empty names and "." are dropped, ".."
\* takes the name before it away, and is dropped at the root.
RECURSIVE CleanNames(_, _, _)
CleanNames(names, kept, rooted) ==
    IF names = <<>> THEN kept
    ELSE LET e == Head(names)
             rest == Tail(names)
         IN IF e = <<>> \/ e = <<".">> THEN CleanNames(rest, kept, rooted)
            ELSE IF e # <<"..">> THEN CleanNames(rest, Append(kept, e), rooted)
            ELSE IF kept # <<>> /\ kept[Len(kept)] # <<"..">>
            THEN CleanNames(rest, SubSeq(kept, 1, Len(kept) - 1), rooted)
            ELSE IF rooted THEN CleanNames(rest, kept, rooted)
            ELSE CleanNames(rest, Append(kept, e), rooted)

\* The names written with one separator between them.
RECURSIVE JoinNames(_)
JoinNames(names) ==
    IF names = <<>> THEN <<>>
    ELSE IF Len(names) = 1 THEN names[1]
    ELSE names[1] \o <<"/">> \o JoinNames(Tail(names))

\* filepath.Clean(path): the shortest path of the same meaning, without a
\* separator at its end unless it is the root.
FilepathClean(path) ==
    LET rooted == path # <<>> /\ path[1] = "/"
        names == CleanNames(SplitPath(path), <<>>, rooted)
    IN IF rooted THEN <<"/">> \o JoinNames(names)
       ELSE IF names = <<>> THEN <<".">>
       ELSE JoinNames(names)

\* filepath.Join(a, b): the arguments that are not empty with a separator
\* between them, cleaned.
FilepathJoin(a, b) ==
    IF a = <<>> /\ b = <<>> THEN <<>>
    ELSE IF a = <<>> THEN FilepathClean(b)
    ELSE FilepathClean(a \o <<"/">> \o b)

\* filepath.Dir(path): the path without its last name.
FilepathDir(path) ==
    LET slashes == {i \in 1..Len(path) : path[i] = "/"}
        last == IF slashes = {} THEN 0
                ELSE CHOOSE i \in slashes : \A j \in slashes : j <= i
    IN FilepathClean(SubSeq(path, 1, last))

getExecRelativeDir(cfg, d) ==
    FilepathJoin(FilepathDir(Filename(getTargetAbsoluteDir(cfg))), d)

\* The directory BackgroundRun makes with os.MkdirAll, line 116.
StateDir(cfg) == getExecRelativeDir(cfg, cfg.Dir)

\* The path NextUpdate reads, line 143.
NextUpdatePath(cfg) == getExecRelativeDir(cfg, cfg.Dir \o upcktimePath)

\* The path SetUpdateTime writes, line 151.
SetUpdateTimePath(cfg) == getExecRelativeDir(cfg, cfg.Dir \o upcktimePath)

\* The path ClearUpdateState removes, line 161.
ClearUpdateStatePath(cfg) == getExecRelativeDir(cfg, cfg.Dir \o upcktimePath)

(***************************************************************************)
(* The manifest (Info) and its JSON form                                   *)
(***************************************************************************)
EmptyInfo == [Version |-> <<>>, Sha256 |-> NilBytes, Signature |-> NilBytes]

\* A JSON member: absent, null, or a string.  A []byte member is the base64
\* text of the byte string s.
JAbsentText == [j |-> "absent", s |-> <<>>]
JText(s) == [j |-> "string", s |-> s]
JAbsentBytes == [j |-> "absent", s |-> NilBytes]
JNullBytes == [j |-> "null", s |-> NilBytes]
JBytes(b) == [j |-> "string", s |-> b]

\* encoding/json into a string field: an absent or null member leaves "".
DecodeText(m) == IF m.j = "string" THEN m.s ELSE <<>>

\* encoding/json into a []byte field: an absent or null member leaves nil,
\* a string (also the empty one) sets a non-nil slice of the decoded bytes.
DecodeBytes(m) ==
    IF m.j = "string" THEN [nil |-> FALSE, len |-> m.s.len, val |-> m.s.val]
    ELSE NilBytes

(***************************************************************************)
(* What the Requester can answer                                           *)
(***************************************************************************)
ErrApi404 == "Bad status code on api: 404"
ErrDiff404 == "Bad status code on diff: 404"
ErrBin404 == "Bad status code on binary: 404"
ErrNilReadCloser == "Fetch was expected to return non-nil ReadCloser"
ErrJson == "invalid character in JSON"
ErrBadHashLen == "bad cmd hash in info. Expected 32 got other"
ErrNoSignature ==
    "update: configured with public key but version info had no signature"
ErrHashMismatch == "new file hash mismatch after patch"
ErrSignatureMismatch == "new file signature mismatch after patch"
ErrPatch == "corrupt patch"
ErrGzip == "gzip: invalid header"
ErrOpen == "open: permission denied"
ErrSwap == "rename: permission denied"

\* No manifest body received (the fetch failed, or no fetch was made yet).
NoBody ==
    [json |-> "none", Version |-> JAbsentText, Sha256 |-> JAbsentBytes,
     Signature |-> JAbsentBytes]

ManifestBodies(cfg) ==
    {[json |-> "malformed", Version |-> JAbsentText,
      Sha256 |-> JAbsentBytes, Signature |-> JAbsentBytes]}
    \cup
    { [json |-> "object", Version |-> v, Sha256 |-> h, Signature |-> g] :
        v \in {JAbsentText, JText(cfg.CurrentVersion), JText(V13),
               JText(V13Plus)},
        h \in {JAbsentBytes, JBytes(Sha256Sum("new")), JBytes(Sha256Sum("bad")),
               JBytes(ShortHash)},
        g \in {JAbsentBytes, JNullBytes, JBytes(EmptyBytes),
               JBytes(SignPKCS1v15("K1", Sha256Sum("new"))),
               JBytes(SignPKCS1v15("K2", Sha256Sum("new"))),
               JBytes(SignPKCS1v15("K1", Sha256Sum("bad")))} }

\* A delta stream: bsdiff data from one executable to another, or junk.
Diff(a, b) == [kind |-> "bsdiff", from |-> a, to |-> b]
DeltaBodies ==
    {[kind |-> "junk", from |-> "", to |-> ""]}
    \cup {Diff(a, b) : a \in {"old", "bad"}, b \in {"new", "bad"}}

\* A full-download stream: a gzipped executable, or something that is no gzip.
Gzip(b) == [kind |-> "gzip", of |-> b]
FullBodies == {[kind |-> "junk", of |-> ""]} \cup {Gzip(b) : b \in {"new", "bad"}}

\* What Requester.Fetch returns: (stream, nil), (stream, error) or (nil, nil).
Answers(bodies, e) ==
    {[rc |-> "nil", err |-> "", body |-> CHOOSE b \in bodies : TRUE],
     [rc |-> "stream", err |-> e, body |-> CHOOSE b \in bodies : TRUE]}
    \cup {[rc |-> "stream", err |-> "", body |-> b] : b \in bodies}

\* The answers of the Updater's Requester to the three fetches.  The mock
\* "any" may answer anything; the mock "canned" serves the empty manifest
\* "{}" of TestUpdaterCheckTime, the nil stream of
\* TestUpdaterFetchMustReturnNonNilReaderCloser, or one update that is
\* served as a full download only; the delta and the full download may be
\* answered with an error or a nil stream as well.
CannedManifests(cfg) ==
    { [json |-> "object", Version |-> JAbsentText, Sha256 |-> JAbsentBytes,
       Signature |-> JAbsentBytes],
      [json |-> "object", Version |-> JText(V13),
       Sha256 |-> JBytes(Sha256Sum("new")), Signature |-> JAbsentBytes] }

ManifestAnswers(cfg) ==
    IF cfg.Requester = "canned"
    THEN {a \in Answers(CannedManifests(cfg), ErrApi404) : a.err = ""}
    ELSE Answers(ManifestBodies(cfg), ErrApi404)

DeltaAnswers(cfg) ==
    IF cfg.Requester = "canned"
    THEN {a \in Answers(DeltaBodies, ErrDiff404) : a.err # "" \/ a.rc = "nil"}
    ELSE Answers(DeltaBodies, ErrDiff404)

FullAnswers(cfg) ==
    IF cfg.Requester = "canned"
    THEN Answers({Gzip("new")}, ErrBin404)
    ELSE Answers(FullBodies, ErrBin404)

(***************************************************************************)
(* fetch, fetchInfo, the delta stage and the full stage                    *)
(***************************************************************************)
\* fetch without lines 333-336: a nil stream is passed on.
fetchUnchecked(ans) == ans.err

\* Updater.fetch with a Requester configured: the error of the fetch, or "".
fetch(ans) ==
    IF ans.err # "" THEN ans.err
    ELSE IF ans.rc = "nil" THEN ErrNilReadCloser
    ELSE ""

\* fetchInfo without lines 260-262: the length of Sha256 is not looked at.
fetchInfoAnyHashLength(ans) ==
    LET e == fetch(ans)
        b == ans.body
        inf == [Version |-> DecodeText(b.Version),
                Sha256 |-> DecodeBytes(b.Sha256),
                Signature |-> DecodeBytes(b.Signature)]
    IN IF e # "" THEN [info |-> EmptyInfo, err |-> e]
       ELSE IF b.json = "malformed" THEN [info |-> EmptyInfo, err |-> ErrJson]
       ELSE [info |-> inf, err |-> ""]

\* Updater.fetchInfo: [info, err].
fetchInfo(ans) ==
    LET e == fetch(ans)
        b == ans.body
        inf == [Version |-> DecodeText(b.Version),
                Sha256 |-> DecodeBytes(b.Sha256),
                Signature |-> DecodeBytes(b.Signature)]
    IN IF e # "" THEN [info |-> EmptyInfo, err |-> e]
       ELSE IF b.json = "malformed" THEN [info |-> EmptyInfo, err |-> ErrJson]
       ELSE IF inf.Version # <<>> /\ inf.Sha256.len # Sha256Size
            THEN [info |-> EmptyInfo, err |-> ErrBadHashLen]
       ELSE [info |-> inf, err |-> ""]

\* binarydist.Patch(old, &buf, r): applied to the executable the delta was
\* made from it gives the new one; junk, or a delta made from another
\* executable, is an error or gives bytes that are no executable of the model.
Patch(oldBin, d, garbles) ==
    IF d.kind = "bsdiff" /\ d.from = oldBin THEN [bin |-> d.to, err |-> ""]
    ELSE IF d.kind = "bsdiff" /\ garbles THEN [bin |-> "garbled", err |-> ""]
    ELSE [bin |-> "", err |-> ErrPatch]

\* Updater.fetchAndApplyPatch: [bin, err].
fetchAndApplyPatch(ans, oldBin, garbles) ==
    LET e == fetch(ans)
    IN IF e # "" THEN [bin |-> "", err |-> e]
       ELSE Patch(oldBin, ans.body, garbles)

\* Updater.fetchAndVerifyPatch: [bin, err].
fetchAndVerifyPatch(cfg, inf, ans, oldBin, garbles) ==
    LET r == fetchAndApplyPatch(ans, oldBin, garbles)
    IN IF r.err # "" THEN [bin |-> "", err |-> r.err]
       ELSE IF ~verifySha(r.bin, inf.Sha256)
            THEN [bin |-> "", err |-> ErrHashMismatch]
       ELSE IF ~verifySignature(cfg.PublicKey, r.bin, inf.Signature)
            THEN [bin |-> "", err |-> ErrSignatureMismatch]
       ELSE [bin |-> r.bin, err |-> ""]

\* Updater.fetchBin: [bin, err].
fetchBin(ans) ==
    LET e == fetch(ans)
    IN IF e # "" THEN [bin |-> "", err |-> e]
       ELSE IF ans.body.kind # "gzip" THEN [bin |-> "", err |-> ErrGzip]
       ELSE [bin |-> ans.body.of, err |-> ""]

\* fetchAndVerifyFullBin with lines 299-302 before lines 296-298: the
\* signature is verified before the hash.
fetchAndVerifyFullBinSignatureFirst(cfg, inf, ans) ==
    LET r == fetchBin(ans)
    IN IF r.err # "" THEN [bin |-> "", err |-> r.err]
       ELSE IF ~verifySignature(cfg.PublicKey, r.bin, inf.Signature)
            THEN [bin |-> "", err |-> ErrSignatureMismatch]
       ELSE IF ~verifySha(r.bin, inf.Sha256)
            THEN [bin |-> "", err |-> ErrHashMismatch]
       ELSE [bin |-> r.bin, err |-> ""]

\* fetchAndVerifyFullBin returning what fetchBin delivered, unverified.
fetchAndVerifyFullBinUnverified(cfg, inf, ans) == fetchBin(ans)

\* Updater.fetchAndVerifyFullBin: [bin, err].
fetchAndVerifyFullBin(cfg, inf, ans) ==
    LET r == fetchBin(ans)
    IN IF r.err # "" THEN [bin |-> "", err |-> r.err]
       ELSE IF ~verifySha(r.bin, inf.Sha256)
            THEN [bin |-> "", err |-> ErrHashMismatch]
       ELSE IF ~verifySignature(cfg.PublicKey, r.bin, inf.Signature)
            THEN [bin |-> "", err |-> ErrSignatureMismatch]
       ELSE [bin |-> r.bin, err |-> ""]

(***************************************************************************)
(* The file system and the replacement of the binary                       *)
(***************************************************************************)
\* A path is the binary itself or one of its two siblings in the same
\* directory: the freshly written candidate and the binary moved away.
At(p) == [of |-> p, kind |-> "target"]
NewPath(p) == [of |-> p, kind |-> "new"]
OldPath(p) == [of |-> p, kind |-> "old"]
AllPaths == {At(p) : p \in {ExePath, GoldenPath}}
            \cup {NewPath(p) : p \in {ExePath, GoldenPath}}
            \cup {OldPath(p) : p \in {ExePath, GoldenPath}}

Absent == "absent"
Partial == "partial"

ErrWrite == "write: no space left on device"
ErrRecover == "rename back: permission denied"

\* fmt.Errorf("update and recovery errors: %q %q", err, errRecover), for
\* the errors the replacement can end with.
ErrUpdateAndRecovery ==
    "update and recovery errors: \"rename: permission denied\" \"rename back: permission denied\""
ErrUpdateAndRecoveryOther == "update and recovery errors: other errors"
Errorf(err, errRecover) ==
    IF err = ErrSwap /\ errRecover = ErrRecover THEN ErrUpdateAndRecovery
    ELSE ErrUpdateAndRecoveryOther

SwapOutcomes ==
    {"ok", "okOldStays", "writeFails", "moveAwayFails", "moveInFails",
     "recoveryFails"}

\* A binary that is not at its path cannot be moved away.
SwapOutcomesAt(fs, p) ==
    IF fs[At(p)] = Absent THEN {"writeFails", "moveAwayFails"} ELSE SwapOutcomes

\* The path the engine replaces: its own target path, and the running
\* executable when that is empty.
EnginePath(eng) == IF eng.TargetPath = "" THEN ExePath ELSE eng.TargetPath

\* update.FromStream(candidate): [files, err, errRecover].  The candidate is
\* written to a sibling, the target is moved away, the candidate is moved in;
\* when moving in fails the target is moved back.
FromStream(eng, candidate, outcome, fs) ==
    LET p == EnginePath(eng)
        written == [fs EXCEPT ![NewPath(p)] = candidate, ![OldPath(p)] = Absent]
        away == [written EXCEPT ![OldPath(p)] = fs[At(p)], ![At(p)] = Absent]
    IN CASE outcome = "writeFails" ->
              [files |-> [fs EXCEPT ![NewPath(p)] = Partial],
               err |-> ErrWrite, errRecover |-> ""]
         [] outcome = "moveAwayFails" ->
              [files |-> written, err |-> ErrSwap, errRecover |-> ""]
         [] outcome = "moveInFails" ->
              [files |-> written, err |-> ErrSwap, errRecover |-> ""]
         [] outcome = "recoveryFails" ->
              [files |-> away, err |-> ErrSwap, errRecover |-> ErrRecover]
         [] outcome = "okOldStays" ->
              [files |-> [away EXCEPT ![At(p)] = candidate,
                                      ![NewPath(p)] = Absent],
               err |-> "", errRecover |-> ""]
         [] OTHER ->
              [files |-> [away EXCEPT ![At(p)] = candidate,
                                      ![NewPath(p)] = Absent,
                                      ![OldPath(p)] = Absent],
               err |-> "", errRecover |-> ""]

(***************************************************************************)
(* Time and the cooldown file                                              *)
(***************************************************************************)
\* The clock counts instants; Second of them make a second, so that an
\* instant can lie between two whole seconds.
Second == 2
Hour == 3600 * Second

\* time.Time{}: the zero instant, before every instant the clock shows.
ZeroTime == 0
StartTime == 100 * Hour

\* The back-off of readTime, in hours.
BackoffHours == 1000

\* t.Format(time.RFC3339): the layout has no fraction of a second, the
\* text names the whole second the instant lies in.
FormatRFC3339(t) == [layout |-> "rfc3339", sec |-> t \div Second]

\* Text that is no RFC 3339 timestamp.
Garbage == [layout |-> "garbage", sec |-> 0]

\* time.Parse(time.RFC3339, text): [t, err].
ParseRFC3339(text) ==
    IF text.layout = "rfc3339" THEN [t |-> text.sec * Second, err |-> FALSE]
    ELSE [t |-> ZeroTime, err |-> TRUE]

\* The cooldown file <Dir>cktime: missing, present but not to be read or
\* written (no permission, or no regular file), or readable with a text.
MissingFile == [state |-> "missing", text |-> Garbage]
UnreadableFile == [state |-> "unreadable", text |-> Garbage]
FileWith(text) == [state |-> "readable", text |-> text]

\* readTime with every read error answered like the missing file.
readTimeAnyErrorIsZero(file, t) ==
    IF file.state # "readable" THEN ZeroTime
    ELSE IF ParseRFC3339(file.text).err THEN t + BackoffHours * Hour
    ELSE ParseRFC3339(file.text).t

\* readTime(path) at the instant t.
readTime(file, t) ==
    IF file.state = "missing" THEN ZeroTime
    ELSE IF file.state = "unreadable" THEN t + BackoffHours * Hour
    ELSE IF ParseRFC3339(file.text).err THEN t + BackoffHours * Hour
    ELSE ParseRFC3339(file.text).t

\* writeTime(path, t): [file, ok]; ok is whether ioutil.WriteFile succeeds.
writeTime(file, t, ok) ==
    IF ok THEN [file |-> FileWith(FormatRFC3339(t)), ok |-> TRUE]
    ELSE [file |-> file, ok |-> FALSE]

\* Whether ioutil.WriteFile can succeed on the file.
WriteOutcomes(file) == IF file.state = "unreadable" THEN {FALSE} ELSE BOOLEAN

\* NextUpdate without a look at the cooldown file.
NextUpdateUnread(cfg, file, t) == ZeroTime

\* Updater.NextUpdate at the instant t.
NextUpdate(cfg, file, t) == readTime(file, t)

\* rand.Intn taken to include its argument: an integer of [0, n].
IntnInclusive(n) == 0..n

\* rand.Intn(n): an integer of [0, n).
Intn(n) == 0..(n - 1)

\* The draws of rand.Intn(u.RandomizeTime), without the 1 of line 153.
JitterDrawsExclusive(cfg) == Intn(cfg.RandomizeTime)

\* The draws of rand.Intn(u.RandomizeTime + 1) in SetUpdateTime.
JitterDraws(cfg) == Intn(cfg.RandomizeTime + 1)

\* SetUpdateTime without line 152: CheckTime is left out of the wait.
SetUpdateTimeJitterOnly(cfg, file, t, j, ok) ==
    writeTime(file, t + j * Hour, ok)

\* Updater.SetUpdateTime at the instant t with the draw j: [file, ok].
SetUpdateTime(cfg, file, t, j, ok) ==
    LET wait == cfg.CheckTime * Hour
        waitrand == j * Hour
    IN writeTime(file, t + wait + waitrand, ok)

\* WantUpdate with !NextUpdate().Before(now) for NextUpdate().After(now).
WantUpdateUnlessNotBefore(cfg, file, t) ==
    IF cfg.CurrentVersion = VDev
       \/ (~cfg.ForceCheck /\ NextUpdate(cfg, file, t) >= t)
    THEN FALSE
    ELSE TRUE

\* WantUpdate without the test of CurrentVersion.
WantUpdateOfAnyVersion(cfg, file, t) ==
    IF ~cfg.ForceCheck /\ NextUpdate(cfg, file, t) > t THEN FALSE ELSE TRUE

\* Updater.WantUpdate at the instant t.
WantUpdate(cfg, file, t) ==
    IF cfg.CurrentVersion = VDev
       \/ (~cfg.ForceCheck /\ NextUpdate(cfg, file, t) > t)
    THEN FALSE
    ELSE TRUE

\* os.MkdirAll of the state directory and up.CanUpdate(): nil or an error.
ErrMkdir == "mkdir: permission denied"
ErrCanUpdate == "open .myapp.new: permission denied"
CanUpdate(eng, permitted) == IF permitted THEN "" ELSE ErrCanUpdate

(***************************************************************************)
(* The release builder: CreateUpdate                                       *)
(***************************************************************************)
\* The versions published, and the names a directory directly under the
\* output directory can have: those versions, and a release that somebody
\* published for another platform only.
PubVersions == {V12, V13}
V11 == <<"1.1">>
DirNames == {V11} \cup PubVersions

\* ioutil.ReadDir returns the entries sorted by name.
DirOrder == <<V11, V12, V13>>

\* The source binary: a file that can be read, no file, or a file that
\* cannot be read; and a directory with one binary, named as its platform.
SourceFile(b) == [state |-> "readable", bytes |-> b]
MissingSource == [state |-> "missing", bytes |-> ""]
UnreadableSource == [state |-> "unreadable", bytes |-> ""]
SourceDir(b) == [state |-> "dir", bytes |-> b]

\* ioutil.ReadFile(path): [b, err]; no bytes when the read fails.
ReadFile(f) ==
    IF f.state = "readable" THEN [b |-> f.bytes, err |-> FALSE]
    ELSE [b |-> "", err |-> TRUE]

\* GenerateSha256(path): a read error is printed and the hash is taken of
\* the bytes read, which are none.
GenerateSha256(f) == Sha256Sum(ReadFile(f).b)

\* The output tree <out>: whether the directory exists, the manifest
\* <out>/<platform>.json, the directories <out>/<D>, the files
\* <out>/<D>/<platform>.gz, the directories <out>/<D>/<v> and the deltas
\* <out>/<D>/<v>/<platform>.
NoGz == [kind |-> "absent", of |-> ""]
NoDelta == [kind |-> "absent", from |-> "", to |-> ""]
EmptyTree ==
    [out |-> TRUE, json |-> NoBody, dirs |-> {},
     gz |-> [d \in DirNames |-> NoGz], ddirs |-> {},
     delta |-> {}]

\* The file <out>/<D>/<v>/<platform> of the tree t; its deltas are kept as
\* the set of the files there are, [at: <<D, v>>, patch: the content].
DeltaAt(t, D, v) ==
    IF \E x \in t.delta : x.at = <<D, v>>
    THEN (CHOOSE x \in t.delta : x.at = <<D, v>>).patch
    ELSE NoDelta
NoTree == [EmptyTree EXCEPT !.out = FALSE]

\* json.MarshalIndent(c, "", "    "): a nil byte slice is written null.
MarshalIndent(c) ==
    [json |-> "object", Version |-> JText(c.Version),
     Sha256 |-> IF c.Sha256.nil THEN JNullBytes ELSE JBytes(c.Sha256),
     Signature |-> IF c.Signature.nil THEN JNullBytes
                   ELSE JBytes(c.Signature)]

\* CreateUpdate, lines 132-139, signing the SHA-256 of the hash instead of
\* the hash.
CreateUpdateInfoSignsHashOfHash(version, f, pk) ==
    LET c == [Version |-> version, Sha256 |-> GenerateSha256(f),
              Signature |-> NilBytes]
    IN IF pk # NilKey
       THEN [c EXCEPT !.Signature =
                        SignPKCS1v15(pk, [nil |-> FALSE, len |-> Sha256Size,
                                          val |-> <<"sha256">> \o c.Sha256.val])]
       ELSE c

\* CreateUpdate, lines 132-139: the Info of the manifest, signed when a
\* private key is given.
CreateUpdateInfo(version, f, pk) ==
    LET c == [Version |-> version, Sha256 |-> GenerateSha256(f),
              Signature |-> NilBytes]
    IN IF pk # NilKey
       THEN [c EXCEPT !.Signature = SignPKCS1v15(pk, c.Sha256)]
       ELSE c

\* os.Mkdir(<out>/<D>/<v>); the error is dropped.  Nothing can be made
\* or written under a directory of locked, the directories the builder
\* has no permission to write in.
MkdirDelta(t, locked, D, v) ==
    IF D \in locked THEN t ELSE [t EXCEPT !.ddirs = @ \cup {<<D, v>>}]

\* ioutil.WriteFile(<out>/<D>/<v>/<platform>, patch); the error is dropped.
WriteDelta(t, locked, D, v, patch) ==
    IF <<D, v>> \in t.ddirs /\ D \notin locked
    THEN [t EXCEPT !.delta = {x \in @ : x.at # <<D, v>>}
                              \cup {[at |-> <<D, v>>, patch |-> patch]}]
    ELSE t

\* ioutil.WriteFile(<out>/<v>/<platform>.gz, buf); the error is dropped.
WriteGz(t, locked, v, buf) ==
    IF v \in t.dirs /\ v \notin locked THEN [t EXCEPT !.gz[v] = buf] ELSE t

RECURSIVE CreateUpdateDeltasOfAll(_, _, _, _)
\* CreateUpdate, lines 166-199 without lines 170-172: the directory of the
\* version itself is not skipped.
CreateUpdateDeltasOfAll(t, locked, version, i) ==
    IF i > Len(DirOrder) THEN [tree |-> t, exit |-> "returned"]
    ELSE LET D == DirOrder[i]
             made == MkdirDelta(t, locked, D, version)
             oldF == made.gz[D]
             newF == made.gz[version]
         IN IF D \notin t.dirs
            THEN CreateUpdateDeltasOfAll(t, locked, version, i + 1)
            ELSE IF oldF.kind = "absent"
            THEN CreateUpdateDeltasOfAll(made, locked, version, i + 1)
            ELSE IF newF.kind = "absent"
            THEN [tree |-> made, exit |-> "exit 1"]
            ELSE IF oldF.kind # "gzip" \/ newF.kind # "gzip"
            THEN [tree |-> made, exit |-> "panic"]
            ELSE CreateUpdateDeltasOfAll(
                     WriteDelta(made, locked, D, version,
                                Diff(oldF.of, newF.of)),
                     locked, version, i + 1)

RECURSIVE CreateUpdateDeltas(_, _, _, _)
\* CreateUpdate, lines 166-199: the loop over the entries of <out>, from
\* the i-th on: [tree, exit].  A directory that is not the version's gets
\* the directory <D>/<version>; when it holds <platform>.gz, the old and
\* the new .gz are opened and decompressed and their delta is written.
CreateUpdateDeltas(t, locked, version, i) ==
    IF i > Len(DirOrder) THEN [tree |-> t, exit |-> "returned"]
    ELSE LET D == DirOrder[i]
             made == MkdirDelta(t, locked, D, version)
             oldF == made.gz[D]
             newF == made.gz[version]
         IN IF D \notin t.dirs \/ D = version
            THEN CreateUpdateDeltas(t, locked, version, i + 1)
            ELSE IF oldF.kind = "absent"
            THEN CreateUpdateDeltas(made, locked, version, i + 1)
            ELSE IF newF.kind = "absent"
            THEN [tree |-> made, exit |-> "exit 1"]
            ELSE IF oldF.kind # "gzip" \/ newF.kind # "gzip"
            THEN [tree |-> made, exit |-> "panic"]
            ELSE CreateUpdateDeltas(
                     WriteDelta(made, locked, D, version,
                                Diff(oldF.of, newF.of)),
                     locked, version, i + 1)

\* CreateUpdate with line 159 after the loop of lines 166-199: the deltas
\* are made from the .gz the version's directory held before.
CreateUpdateWritesGzLast(t, locked, version, f, pk) ==
    LET c == CreateUpdateInfo(version, f, pk)
        written == [t EXCEPT !.json = MarshalIndent(c)]
        made == [written EXCEPT !.dirs = @ \cup {version}]
        r == CreateUpdateDeltas(made, locked, version, 1)
    IN IF ~t.out THEN [tree |-> t, exit |-> "panic"]
       ELSE IF ReadFile(f).err THEN [tree |-> made, exit |-> "panic"]
       ELSE IF r.exit # "returned" THEN r
       ELSE [tree |-> WriteGz(r.tree, locked, version, Gzip(ReadFile(f).b)),
             exit |-> r.exit]

\* CreateUpdate(version, path, platform, genDir, pk): [tree, exit], the tree
\* it leaves and whether it returned, panicked or called os.Exit(1).  The
\* manifest is written first (a failure panics), then the version's
\* directory is made, then the source is read again (a failure panics),
\* then its gzip is written, then the deltas.
CreateUpdate(t, locked, version, f, pk) ==
    LET c == CreateUpdateInfo(version, f, pk)
        written == [t EXCEPT !.json = MarshalIndent(c)]
        made == [written EXCEPT !.dirs = @ \cup {version}]
        zipped == WriteGz(made, locked, version, Gzip(ReadFile(f).b))
    IN IF ~t.out THEN [tree |-> t, exit |-> "panic"]
       ELSE IF ReadFile(f).err THEN [tree |-> made, exit |-> "panic"]
       ELSE CreateUpdateDeltas(zipped, locked, version, 1)

(***************************************************************************)
(* The go-selfupdate command                                               *)
(***************************************************************************)
\* The file named by -k/--key: no flag, a PKCS#1 key in PEM, a file that
\* cannot be read, or a file that holds no such key.
KeyFiles == {"none", "pem", "unreadable", "unparsable"}

ErrKeyFile == "open key.pem: no such file or directory"
ErrKeyParse == "failed to parse private key"
ErrOutputDir == "failed to create output dir"

\* validatePrivateKey(): [key, err].
validatePrivateKey(keyFile) ==
    CASE keyFile = "none" -> [key |-> NilKey, err |-> ""]
      [] keyFile = "unreadable" -> [key |-> NilKey, err |-> ErrKeyFile]
      [] keyFile = "unparsable" -> [key |-> NilKey, err |-> ErrKeyParse]
      [] OTHER -> [key |-> "K1", err |-> ""]

\* rootCmd.PreRunE: [privateKey, err].  The err of validatePrivateKey is
\* overwritten by the result of createBuildDir before it is looked at.
PreRunE(keyFile, made) ==
    [privateKey |-> validatePrivateKey(keyFile).key,
     err |-> IF made THEN "" ELSE ErrOutputDir]

\* rootCmd.RunE: [tree, exit].  os.Stat of the binary location fails when
\* there is nothing; a directory has each of its files published, a file
\* is published for the platform of the flag.
RunE(t, locked, version, app, privateKey) ==
    IF app.state = "missing" THEN [tree |-> t, exit |-> "exit 1"]
    ELSE LET f == IF app.state = "dir" THEN SourceFile(app.bytes) ELSE app
             r == CreateUpdate(t, locked, version, f, privateKey)
         IN [tree |-> r.tree,
             exit |-> IF r.exit = "returned" THEN "exit 0" ELSE r.exit]

(***************************************************************************)
(* State                                                                   *)
(***************************************************************************)
VARIABLES
    u,          \* the Updater configuration
    files,      \* the file system: path -> content
    pc,         \* where Update() stands: idle, fetchInfo, patch, full, swap, done
    calls,      \* Update() or BackgroundRun() calls made so far
    before,     \* the file system when the current call began
    old,        \* content read through the handle opened on the binary
    wire,       \* the manifest body the Requester delivered to the call
    info,       \* the manifest the call decoded
    delta,      \* the delta stage: [bin: the patched bytes, err: its error]
    full,       \* the full stage: [bin: the decompressed bytes, err: its error]
    bin,        \* the candidate handed to the swap
    fetched,    \* the URLs the call handed to the Requester, in order
    swapped,    \* the FromStream invocations of the call: [path, bin]
    ret,        \* what the call returned: [info, err]
    answered,   \* what the Requester answered to the call's fetches: [rc, err]
    now,        \* time.Now()
    ticks,      \* the steps the clock has made
    dir,        \* whether the state directory exists
    cktime,     \* the cooldown file
    run,        \* the course of the current BackgroundRun() call
    prev,       \* what the BackgroundRun() call before it did to the cooldown
    tree,       \* the output tree of the release builder
    locked,     \* the directories of the tree the builder cannot write in
    pub,        \* the course of the current call of the builder
    addressed   \* the file the last call of NextUpdate(), SetUpdateTime()
                \* or ClearUpdateState() by the application addressed

vars == <<u, files, pc, calls, before, old, wire, info, delta, full, bin,
          fetched, swapped, ret, answered, now, ticks, dir, cktime, run, prev,
          tree, locked, pub, addressed>>

\* The state of the release builder.
builder == <<tree, locked, pub>>

\* What Update() itself leaves alone: the scheduler and the builder.
sched == <<now, ticks, dir, cktime, run, prev, builder, addressed>>

NoStage == [bin |-> "", err |-> ""]

\* The course of a BackgroundRun() call: the instant and the cooldown file
\* it began with, how far it got (MkdirAll succeeded, WantUpdate was true,
\* CanUpdate succeeded, SetUpdateTime was called and wrote the file), the
\* jitter drawn and the draws there were, and the cooldown file it left.
NoRun ==
    [at |-> ZeroTime, file |-> MissingFile, mkdir |-> FALSE, want |-> FALSE,
     can |-> FALSE, set |-> FALSE, wrote |-> FALSE,
     jitter |-> 0, draws |-> {}, left |-> MissingFile]

\* What is kept of a BackgroundRun() call when the next one begins: when it
\* began, whether it called SetUpdateTime and wrote the file, the cooldown
\* file it left, and whether it returned an error.
Past(r, e) ==
    [at |-> r.at, set |-> r.set, wrote |-> r.wrote, left |-> r.left,
     failed |-> (e # "")]

\* The course of a call of the builder: its number, whether CreateUpdate
\* was called directly ("api") or through the command ("cli"), its inputs
\* (version, binary location, private key or key file), the tree it
\* found, how it ended, and the inputs of the call before it.
NoArgs ==
    [via |-> "none", version |-> <<>>, app |-> MissingSource,
     key |-> NilKey, keyFile |-> "none"]
NoPub ==
    [n |-> 0, args |-> NoArgs, before |-> NoTree, exit |-> "", prev |-> NoArgs]

\* No call of NextUpdate(), SetUpdateTime() or ClearUpdateState() yet.
NoFile == [op |-> "none", path |-> <<>>, found |-> MissingFile,
           t |-> ZeroTime, ok |-> FALSE]

Init ==
    /\ u \in Updaters
    /\ files = [p \in AllPaths |-> IF p.kind = "target" THEN "old" ELSE Absent]
    /\ pc = "idle"
    /\ calls = 0
    /\ before = files
    /\ old = ""
    /\ wire = NoBody
    /\ info = EmptyInfo
    /\ delta = NoStage
    /\ full = NoStage
    /\ bin = ""
    /\ fetched = <<>>
    /\ swapped = <<>>
    /\ ret = [info |-> EmptyInfo, err |-> ""]
    /\ answered = <<>>
    /\ now = StartTime
    /\ ticks = 0
    /\ dir = FALSE
    /\ cktime = MissingFile
    /\ run = NoRun
    /\ prev = Past(NoRun, "")
    /\ tree = NoTree
    /\ locked = {}
    /\ pub = NoPub
    /\ addressed = NoFile

Return(i, e) ==
    /\ pc' = "done"
    /\ ret' = [info |-> i, err |-> e]

(***************************************************************************)
(* Update()                                                                *)
(***************************************************************************)
\* Update, lines 190-196: resolve the path and open the binary.
\* A call begins: nothing fetched, decoded or swapped yet.
Begin ==
    /\ before' = files
    /\ wire' = NoBody
    /\ info' = EmptyInfo
    /\ delta' = NoStage
    /\ full' = NoStage
    /\ bin' = ""
    /\ fetched' = <<>>
    /\ swapped' = <<>>
    /\ answered' = <<>>

\* Whether os.Open of the binary can succeed.
OpenOutcomes(cfg, fs) ==
    IF fs[At(getTargetAbsoluteDir(cfg))] = Absent THEN {FALSE} ELSE BOOLEAN

\* Update, lines 190-196, with os.Open succeeding or not.
Open(opens) ==
    IF opens
    THEN /\ old' = files[At(getTargetAbsoluteDir(u))]
         /\ pc' = "fetchInfo"
         /\ ret' = [info |-> EmptyInfo, err |-> ""]
    ELSE /\ old' = ""
         /\ Return(EmptyInfo, ErrOpen)

UpdateOpen ==
    /\ pc \in {"idle", "done"}
    /\ calls < MaxCalls
    /\ calls' = calls + 1
    /\ Begin
    /\ \E opens \in OpenOutcomes(u, files) : Open(opens)
    /\ UNCHANGED <<u, files, sched>>

\* Update, lines 209-213 before lines 202-208: the signature is required
\* before the manifest is known to announce an update.
UpdateCheckInfoSignatureFirst(cfg, r) ==
    IF r.err # "" THEN [to |-> "done", err |-> r.err]
    ELSE IF cfg.PublicKey # NilKey /\ r.info.Signature.nil
         THEN [to |-> "done", err |-> ErrNoSignature]
    ELSE IF r.info.Version = <<>> THEN [to |-> "done", err |-> ""]
    ELSE IF r.info.Version = cfg.CurrentVersion THEN [to |-> "done", err |-> ""]
    ELSE [to |-> "patch", err |-> ""]

\* Update, lines 199-213: what follows fetchInfo's result r = [info, err]:
\* its error, no update (no version, or the current one), the missing
\* signature, or the delta stage.
UpdateCheckInfo(cfg, r) ==
    IF r.err # "" THEN [to |-> "done", err |-> r.err]
    ELSE IF r.info.Version = <<>> THEN [to |-> "done", err |-> ""]
    ELSE IF r.info.Version = cfg.CurrentVersion THEN [to |-> "done", err |-> ""]
    ELSE IF cfg.PublicKey # NilKey /\ r.info.Signature.nil
         THEN [to |-> "done", err |-> ErrNoSignature]
    ELSE [to |-> "patch", err |-> ""]

\* Update, lines 198-213: fetch and decode the manifest, decide whether
\* there is an update, and require a signature when a key is configured.
UpdateFetchInfo ==
    /\ pc = "fetchInfo"
    /\ \E ans \in ManifestAnswers(u) :
         LET r == fetchInfo(ans)
             d == UpdateCheckInfo(u, r)
         IN /\ fetched' = Append(fetched, ManifestURL(u))
            /\ answered' = Append(answered, [rc |-> ans.rc, err |-> ans.err])
            /\ wire' = IF fetch(ans) = "" THEN ans.body ELSE NoBody
            /\ info' = r.info
            /\ IF d.to = "done" THEN Return(EmptyInfo, d.err)
               ELSE /\ pc' = d.to
                    /\ ret' = ret
    /\ UNCHANGED <<u, files, calls, before, old, delta, full, bin, swapped,
                   sched>>

\* The delta stage with a fetch or patch error returned to the caller: only
\* a hash mismatch leads to the full download.
UpdatePatchErrorFatal ==
    /\ pc = "patch"
    /\ \E ans \in DeltaAnswers(u), garbles \in BOOLEAN :
         LET r == fetchAndVerifyPatch(u, info, ans, old, garbles)
         IN /\ fetched' = Append(fetched, DeltaURL(u, info))
            /\ answered' = Append(answered, [rc |-> ans.rc, err |-> ans.err])
            /\ delta' = [bin |-> fetchAndApplyPatch(ans, old, garbles).bin,
                         err |-> r.err]
            /\ bin' = r.bin
            /\ IF r.err = "" THEN pc' = "swap" /\ ret' = ret
               ELSE IF r.err = ErrHashMismatch THEN pc' = "full" /\ ret' = ret
               ELSE Return(EmptyInfo, r.err)
    /\ UNCHANGED <<u, files, calls, before, old, wire, info, full, swapped,
                   sched>>

\* The delta stage followed by the full download whatever its result.
UpdatePatchAlwaysFull ==
    /\ pc = "patch"
    /\ \E ans \in DeltaAnswers(u), garbles \in BOOLEAN :
         LET r == fetchAndVerifyPatch(u, info, ans, old, garbles)
         IN /\ fetched' = Append(fetched, DeltaURL(u, info))
            /\ answered' = Append(answered, [rc |-> ans.rc, err |-> ans.err])
            /\ delta' = [bin |-> fetchAndApplyPatch(ans, old, garbles).bin,
                         err |-> r.err]
            /\ bin' = r.bin
            /\ pc' = "full"
    /\ UNCHANGED <<u, files, calls, before, old, wire, info, full, swapped, ret,
                   sched>>

\* Update, lines 214-223: the delta stage.  Every error of it leads to the
\* full download.
UpdatePatch ==
    /\ pc = "patch"
    /\ \E ans \in DeltaAnswers(u), garbles \in BOOLEAN :
         LET r == fetchAndVerifyPatch(u, info, ans, old, garbles)
         IN /\ fetched' = Append(fetched, DeltaURL(u, info))
            /\ answered' = Append(answered, [rc |-> ans.rc, err |-> ans.err])
            /\ delta' = [bin |-> fetchAndApplyPatch(ans, old, garbles).bin,
                         err |-> r.err]
            /\ bin' = r.bin
            /\ pc' = IF r.err # "" THEN "full" ELSE "swap"
    /\ UNCHANGED <<u, files, calls, before, old, wire, info, full, swapped, ret,
                   sched>>

\* Update, lines 224-233: the full download.
UpdateFull ==
    /\ pc = "full"
    /\ \E ans \in FullAnswers(u) :
         LET r == fetchAndVerifyFullBin(u, info, ans)
         IN /\ fetched' = Append(fetched, FullURL(u, info))
            /\ answered' = Append(answered, [rc |-> ans.rc, err |-> ans.err])
            /\ full' = [bin |-> fetchBin(ans).bin, err |-> r.err]
            /\ bin' = r.bin
            /\ IF r.err # "" THEN Return(EmptyInfo, r.err)
               ELSE /\ pc' = "swap"
                    /\ ret' = ret
    /\ UNCHANGED <<u, files, calls, before, old, wire, info, delta, swapped,
                   sched>>

\* Update, lines 239-246 with lines 243-245 before lines 240-242: the
\* error of the replacement is returned whether the recovery failed or not.
UpdateReturnSwapErrorFirst(inf, r) ==
    IF r.err # "" THEN [info |-> EmptyInfo, err |-> r.err]
    ELSE IF r.errRecover # ""
         THEN [info |-> EmptyInfo, err |-> Errorf(r.err, r.errRecover)]
    ELSE [info |-> inf, err |-> ""]

\* Update, lines 239-246: what Update() returns after FromStream's result
\* r = [err, errRecover] for the manifest inf.
UpdateReturn(inf, r) ==
    IF r.errRecover # ""
    THEN [info |-> EmptyInfo, err |-> Errorf(r.err, r.errRecover)]
    ELSE IF r.err # "" THEN [info |-> EmptyInfo, err |-> r.err]
    ELSE [info |-> inf, err |-> ""]

\* Update, lines 235-247: close the handle, replace the binary, return.
UpdateSwap ==
    /\ pc = "swap"
    /\ \E outcome \in SwapOutcomesAt(files, EnginePath(up)) :
         LET r == FromStream(up, bin, outcome, files)
         IN /\ files' = r.files
            /\ swapped' = Append(swapped, [path |-> EnginePath(up), bin |-> bin])
            /\ Return(UpdateReturn(info, r).info, UpdateReturn(info, r).err)
    /\ old' = ""
    /\ UNCHANGED <<u, calls, before, wire, info, delta, full, bin, fetched,
                   answered, sched>>

Next ==
    \/ UpdateOpen
    \/ UpdateFetchInfo
    \/ UpdatePatch
    \/ UpdateFull
    \/ UpdateSwap

Spec == Init /\ [][Next]_vars

(***************************************************************************)
(* BackgroundRun() and the clock                                           *)
(***************************************************************************)
\* How often time passes between calls, and the largest CheckTime and
\* RandomizeTime, in hours, an Updater is configured with.
MaxTicks == 1
MaxCheckTime == 1
MaxRandomizeTime == 1

\* Whether os.MkdirAll of the state directory can succeed.
MkdirOutcomes(exists) == IF exists THEN {TRUE} ELSE BOOLEAN

\* BackgroundRun with line 126 before lines 121-124: SetUpdateTime is
\* called before CanUpdate is asked.
BackgroundRunCallSetsTimeFirst(n, t) ==
    /\ pc \in {"idle", "done"}
    /\ calls' = n
    /\ now' = t
    /\ Begin
    /\ prev' = Past(run, ret.err)
    /\ \E made \in MkdirOutcomes(dir) :
         LET began == [NoRun EXCEPT !.at = t, !.file = cktime,
                                    !.left = cktime]
         IN IF ~made
            THEN /\ run' = began
                 /\ old' = ""
                 /\ Return(EmptyInfo, ErrMkdir)
                 /\ UNCHANGED <<dir, cktime>>
            ELSE IF ~WantUpdate(u, cktime, t)
            THEN /\ run' = [began EXCEPT !.mkdir = TRUE]
                 /\ dir' = TRUE
                 /\ old' = ""
                 /\ Return(EmptyInfo, "")
                 /\ UNCHANGED cktime
            ELSE \E permitted \in BOOLEAN,
                    j \in JitterDraws(u),
                    ok \in WriteOutcomes(cktime),
                    opens \in OpenOutcomes(u, files) :
                   LET set == SetUpdateTime(u, cktime, t, j, ok)
                   IN /\ dir' = TRUE
                      /\ cktime' = set.file
                      /\ IF CanUpdate(up, permitted) # ""
                         THEN /\ run' = [began EXCEPT !.mkdir = TRUE,
                                                      !.want = TRUE]
                              /\ old' = ""
                              /\ Return(EmptyInfo, CanUpdate(up, permitted))
                         ELSE /\ run' = [began EXCEPT
                                           !.mkdir = TRUE, !.want = TRUE,
                                           !.can = TRUE, !.set = TRUE,
                                           !.wrote = set.ok, !.jitter = j,
                                           !.draws = JitterDraws(u),
                                           !.left = set.file]
                              /\ Open(opens)
    /\ UNCHANGED <<u, files, builder, addressed>>

\* BackgroundRun as call number n, made when the clock shows t: lines
\* 115-130, and lines 190-196 of the Update() it ends in.  The result of
\* SetUpdateTime is dropped.
BackgroundRunCall(n, t) ==
    /\ pc \in {"idle", "done"}
    /\ calls' = n
    /\ now' = t
    /\ Begin
    /\ prev' = Past(run, ret.err)
    /\ \E made \in MkdirOutcomes(dir) :
         LET began == [NoRun EXCEPT !.at = t, !.file = cktime,
                                    !.left = cktime]
         IN IF ~made
            THEN /\ run' = began
                 /\ old' = ""
                 /\ Return(EmptyInfo, ErrMkdir)
                 /\ UNCHANGED <<dir, cktime>>
            ELSE IF ~WantUpdate(u, cktime, t)
            THEN /\ run' = [began EXCEPT !.mkdir = TRUE]
                 /\ dir' = TRUE
                 /\ old' = ""
                 /\ Return(EmptyInfo, "")
                 /\ UNCHANGED cktime
            ELSE \E permitted \in BOOLEAN :
                   IF CanUpdate(up, permitted) # ""
                   THEN /\ run' = [began EXCEPT !.mkdir = TRUE, !.want = TRUE]
                        /\ dir' = TRUE
                        /\ old' = ""
                        /\ Return(EmptyInfo, CanUpdate(up, permitted))
                        /\ UNCHANGED cktime
                   ELSE \E j \in JitterDraws(u),
                           ok \in WriteOutcomes(cktime),
                           opens \in OpenOutcomes(u, files) :
                          LET set == SetUpdateTime(u, cktime, t, j, ok)
                          IN /\ run' = [began EXCEPT
                                          !.mkdir = TRUE, !.want = TRUE,
                                          !.can = TRUE, !.set = TRUE,
                                          !.wrote = set.ok, !.jitter = j,
                                          !.draws = JitterDraws(u),
                                          !.left = set.file]
                             /\ dir' = TRUE
                             /\ cktime' = set.file
                             /\ Open(opens)
    /\ UNCHANGED <<u, files, builder, addressed>>

\* The time that has passed since the call before, or since the program
\* started: none, an instant, or an hour.
TickSteps == {1, Hour}
Elapsed == IF ticks < MaxTicks THEN {0} \cup TickSteps ELSE {0}

BackgroundRun ==
    /\ calls < MaxCalls
    /\ \E d \in Elapsed :
         /\ ticks' = IF d = 0 THEN ticks ELSE ticks + 1
         /\ BackgroundRunCall(calls + 1, now + d)

\* createUpdater of the test suite with the canned Requester, as the
\* released program or as a development build, with ForceCheck set or
\* not, and with the CheckTime and RandomizeTime of runTestTimeChecks.
Schedulers ==
    { [CurrentVersion |-> v, CmdName |-> <<"myapp">>,
       ApiURL |-> <<"http://api.updates.yourdomain.com/">>,
       BinURL |-> <<"http://bin.updates.yourdownmain.com/">>,
       DiffURL |-> <<"http://diff.updates.yourdomain.com/">>,
       PublicKey |-> NilKey, Target |-> "",
       Requester |-> "canned", ForceCheck |-> f,
       CheckTime |-> c, RandomizeTime |-> r] :
      v \in {V12, VDev}, f \in BOOLEAN,
      c \in 0..MaxCheckTime, r \in 0..MaxRandomizeTime }

\* The cooldown file the program finds: none, one it cannot read, one with
\* text that is no timestamp, or one an earlier run wrote.
FoundFiles ==
    {MissingFile, UnreadableFile, FileWith(Garbage),
     FileWith(FormatRFC3339(StartTime + Hour))}

SchedInit ==
    /\ u \in Schedulers
    /\ files = [p \in AllPaths |-> IF p.kind = "target" THEN "old" ELSE Absent]
    /\ pc = "idle"
    /\ calls = 0
    /\ before = files
    /\ old = ""
    /\ wire = NoBody
    /\ info = EmptyInfo
    /\ delta = NoStage
    /\ full = NoStage
    /\ bin = ""
    /\ fetched = <<>>
    /\ swapped = <<>>
    /\ ret = [info |-> EmptyInfo, err |-> ""]
    /\ answered = <<>>
    /\ now = StartTime
    /\ ticks = 0
    /\ cktime \in FoundFiles
    /\ dir = (cktime.state # "missing")
    /\ run = NoRun
    /\ prev = Past(NoRun, "")
    /\ tree = NoTree
    /\ locked = {}
    /\ pub = NoPub
    /\ addressed = NoFile

SchedNext ==
    \/ BackgroundRun
    \/ UpdateFetchInfo
    \/ UpdatePatch
    \/ UpdateFull
    \/ UpdateSwap

SchedSpec == SchedInit /\ [][SchedNext]_vars

(***************************************************************************)
(* BackgroundRun() called again and again while time passes                *)
(***************************************************************************)
\* Time without an end is kept relative to the present: when an hour
\* passes, now stays and every instant on record moves an hour into the
\* past, down to LongAgo, which stands for every instant that far back or
\* further.  Only the order of an instant and now is ever looked at.
LongAgo == StartTime - Hour

Earlier(t) ==
    IF t = ZeroTime THEN ZeroTime
    ELSE IF t - Hour < LongAgo THEN LongAgo
    ELSE t - Hour

EarlierFile(file) ==
    IF file.state = "readable" /\ ~ParseRFC3339(file.text).err
    THEN FileWith(FormatRFC3339(Earlier(ParseRFC3339(file.text).t)))
    ELSE file

\* An hour passes.
TickForever ==
    /\ pc \in {"idle", "done"}
    /\ ticks' = (ticks + 1) % (MaxTicks + 1)
    /\ cktime' = EarlierFile(cktime)
    /\ run' = [run EXCEPT !.at = Earlier(@), !.file = EarlierFile(@),
                          !.left = EarlierFile(@)]
    /\ prev' = [prev EXCEPT !.at = Earlier(@), !.left = EarlierFile(@)]
    /\ UNCHANGED <<u, files, pc, calls, before, old, wire, info, delta, full,
                   bin, fetched, swapped, ret, answered, now, dir, builder,
                   addressed>>

\* BackgroundRun, called however often; the calls are counted up to
\* MaxCalls and then from one again.
BackgroundRunForever ==
    /\ UNCHANGED ticks
    /\ BackgroundRunCall(IF calls < MaxCalls THEN calls + 1 ELSE 1, now)

\* The released program with a fixed wait, whatever cooldown file it finds.
FairInit ==
    /\ SchedInit
    /\ u.CurrentVersion = V12
    /\ u.RandomizeTime = 0

UpdateSteps ==
    \/ UpdateFetchInfo
    \/ UpdatePatch
    \/ UpdateFull
    \/ UpdateSwap

FairNext ==
    \/ BackgroundRunForever
    \/ UpdateFetchInfo
    \/ UpdatePatch
    \/ UpdateFull
    \/ UpdateSwap
    \/ TickForever

\* The application keeps calling BackgroundRun(), every call comes to its
\* end, and time keeps passing.
FairSpec ==
    /\ FairInit
    /\ [][FairNext]_vars
    /\ WF_vars(BackgroundRunForever)
    /\ WF_vars(UpdateSteps)
    /\ WF_vars(TickForever)

(***************************************************************************)
(* The release builder at work                                             *)
(***************************************************************************)
\* Number of calls of the builder one behaviour makes.
MaxPublishes == 2

\* What the builder leaves alone.
updater ==
    <<u, files, pc, calls, before, old, wire, info, delta, full, bin, fetched,
      swapped, ret, answered, now, ticks, dir, cktime, run, prev, addressed>>

\* The binaries handed to the builder, and the binary locations handed to
\* the command.
Sources == {SourceFile("old"), SourceFile("new"), MissingSource}
AppPaths == Sources \cup {UnreadableSource, SourceDir("new")}

\* CreateUpdate called directly, as the test suite does.
CreateUpdateCall ==
    /\ pub.n < MaxPublishes
    /\ \E version \in PubVersions, f \in Sources, pk \in {NilKey, "K1"} :
         LET r == CreateUpdate(tree, locked, version, f, pk)
         IN /\ tree' = r.tree
            /\ pub' = [n |-> pub.n + 1,
                       args |-> [via |-> "api", version |-> version,
                                 app |-> f, key |-> pk, keyFile |-> "none"],
                       before |-> tree, exit |-> r.exit, prev |-> pub.args]
    /\ UNCHANGED <<updater, locked>>

\* rootCmd.Execute() and main: PreRunE, and RunE when PreRunE returned
\* no error; an error of either makes main call os.Exit(1).
Execute ==
    /\ pub.n < MaxPublishes
    /\ \E version \in PubVersions, app \in AppPaths, keyFile \in KeyFiles,
          made \in MkdirOutcomes(tree.out) :
         LET pre == PreRunE(keyFile, made)
             built == [tree EXCEPT !.out = made]
             r == IF pre.err # "" THEN [tree |-> built, exit |-> "exit 1"]
                  ELSE RunE(built, locked, version, app, pre.privateKey)
         IN /\ tree' = r.tree
            /\ pub' = [n |-> pub.n + 1,
                       args |-> [via |-> "cli", version |-> version,
                                 app |-> app, key |-> pre.privateKey,
                                 keyFile |-> keyFile],
                       before |-> tree, exit |-> r.exit, prev |-> pub.args]
    /\ UNCHANGED <<updater, locked>>

\* The release 1.2 of the binary "old", as an earlier publish left it.
Release12 ==
    [EmptyTree EXCEPT
       !.json = MarshalIndent(CreateUpdateInfo(V12, SourceFile("old"), NilKey)),
       !.dirs = {V12},
       !.gz = [@ EXCEPT ![V12] = Gzip("old")]]

\* The releases 1.2 and 1.3 of the binary "old", as the two publishes of
\* the test suite leave them.
Release12And13 ==
    [Release12 EXCEPT
       !.json = MarshalIndent(CreateUpdateInfo(V13, SourceFile("old"), NilKey)),
       !.dirs = {V12, V13},
       !.gz = [@ EXCEPT ![V13] = Gzip("old")],
       !.ddirs = {<<V12, V13>>},
       !.delta = {[at |-> <<V12, V13>>, patch |-> Diff("old", "old")]}]

\* The output trees the builder finds: none, an empty directory, the
\* release 1.2, the releases 1.2 and 1.3, the release 1.2 next to one
\* published for another platform only, and the release 1.2 with a .gz
\* that is no gzip.
FoundTrees ==
    {NoTree, EmptyTree, Release12, Release12And13,
     [Release12 EXCEPT !.dirs = {V11, V12}],
     [Release12 EXCEPT !.gz = [@ EXCEPT ![V12] = [kind |-> "junk", of |-> ""]]]}

\* The builder finds a tree, and may lack the permission to write in the
\* directory of the release it finds there.  The client is one with the
\* public key to the builder's private key.
BuildInit ==
    /\ u \in {x \in Updaters : /\ x.PublicKey = "K1"
                                /\ x.Target = ""
                                /\ x.CurrentVersion = V12
                                /\ x.DiffURL # <<>>}
    /\ files = [p \in AllPaths |-> IF p.kind = "target" THEN "old" ELSE Absent]
    /\ pc = "idle"
    /\ calls = 0
    /\ before = files
    /\ old = ""
    /\ wire = NoBody
    /\ info = EmptyInfo
    /\ delta = NoStage
    /\ full = NoStage
    /\ bin = ""
    /\ fetched = <<>>
    /\ swapped = <<>>
    /\ ret = [info |-> EmptyInfo, err |-> ""]
    /\ answered = <<>>
    /\ now = StartTime
    /\ ticks = 0
    /\ dir = FALSE
    /\ cktime = MissingFile
    /\ run = NoRun
    /\ prev = Past(NoRun, "")
    /\ tree \in FoundTrees
    /\ locked \in SUBSET (tree.dirs \cap {V12})
    /\ pub = NoPub
    /\ addressed = NoFile

BuildNext ==
    \/ CreateUpdateCall
    \/ Execute

BuildSpec == BuildInit /\ [][BuildNext]_vars

(***************************************************************************)
(* The application calls NextUpdate(), SetUpdateTime() and                 *)
(* ClearUpdateState() itself, between its calls of BackgroundRun()         *)
(***************************************************************************)
\* The Dir of the example and of the test suite, "update/", and what else
\* an application may write for a subdirectory: without the separator at
\* its end, nested, with a separator too many, with a leading "./", and
\* the empty string.
Dirs ==
    { <<"update", "/">>, <<"update">>,
      <<"state", "/", "update", "/">>, <<"state", "/", "update">>,
      <<"update", "/", "/">>, <<".", "/", "update", "/">>, <<>> }

\* The Updater cfg with its Dir field set.
WithDir(cfg, d) ==
    [f \in DOMAIN cfg \cup {"Dir"} |-> IF f = "Dir" THEN d ELSE cfg[f]]

\* The released program or a development build, beside its executable or
\* with a Target, with a wait of CheckTime hours and a Dir.
DirUpdaters ==
    { WithDir([s EXCEPT !.Target = t], d) :
      s \in {x \in Schedulers : /\ ~x.ForceCheck
                                /\ x.CheckTime = 1
                                /\ x.RandomizeTime = 0},
      t \in {"", GoldenPath},
      d \in Dirs }

\* The path a is the path b or lies below it.
Within(a, b) ==
    LET as == CleanNames(SplitPath(a), <<>>, TRUE)
        bs == CleanNames(SplitPath(b), <<>>, TRUE)
    IN Len(bs) <= Len(as) /\ SubSeq(as, 1, Len(bs)) = bs

\* Whether the directory d exists: the directory of the executable and
\* the ones above it do, the state directory and the ones MkdirAll makes
\* on the way to it do once BackgroundRun() has made them.
DirExists(cfg, made, d) ==
    \/ Within(FilepathDir(Filename(getTargetAbsoluteDir(cfg))), d)
    \/ made /\ Within(StateDir(cfg), d)

\* Whether ioutil.WriteFile can succeed at the path: only in a directory
\* that exists.
WriteOutcomesAt(cfg, made, path, file) ==
    IF DirExists(cfg, made, FilepathDir(path)) THEN WriteOutcomes(file)
    ELSE {FALSE}

\* Whether os.Remove of the file can succeed.
RemoveOutcomes(file) == IF file.state = "missing" THEN {FALSE} ELSE BOOLEAN

\* What the application and BackgroundRun() leave alone in a call of one
\* of the three functions.
untouched ==
    <<u, files, pc, before, old, wire, info, delta, full, bin, fetched,
      swapped, ret, answered, now, ticks, dir, run, prev, builder>>

\* u.NextUpdate(), lines 142-147.
NextUpdateCall ==
    /\ pc \in {"idle", "done"}
    /\ calls < MaxCalls
    /\ calls' = calls + 1
    /\ addressed' = [op |-> "NextUpdate", path |-> NextUpdatePath(u),
                     found |-> cktime, t |-> NextUpdate(u, cktime, now),
                     ok |-> TRUE]
    /\ UNCHANGED <<cktime, untouched>>

\* u.SetUpdateTime(), lines 150-157.
SetUpdateTimeCall ==
    /\ pc \in {"idle", "done"}
    /\ calls < MaxCalls
    /\ calls' = calls + 1
    /\ \E j \in JitterDraws(u),
          ok \in WriteOutcomesAt(u, dir, SetUpdateTimePath(u), cktime) :
         LET set == SetUpdateTime(u, cktime, now, j, ok)
         IN /\ cktime' = set.file
            /\ addressed' = [op |-> "SetUpdateTime",
                             path |-> SetUpdateTimePath(u), found |-> cktime,
                             t |-> now + (u.CheckTime + j) * Hour,
                             ok |-> set.ok]
    /\ UNCHANGED untouched

\* u.ClearUpdateState(), lines 160-163: os.Remove, its error dropped.
ClearUpdateStateCall ==
    /\ pc \in {"idle", "done"}
    /\ calls < MaxCalls
    /\ calls' = calls + 1
    /\ \E ok \in RemoveOutcomes(cktime) :
         /\ cktime' = IF ok THEN MissingFile ELSE cktime
         /\ addressed' = [op |-> "ClearUpdateState",
                          path |-> ClearUpdateStatePath(u), found |-> cktime,
                          t |-> ZeroTime, ok |-> ok]
    /\ UNCHANGED untouched

\* The program finds no state directory, or the state directory with the
\* cooldown file of an earlier run.
DirInit ==
    /\ u \in DirUpdaters
    /\ files = [p \in AllPaths |-> IF p.kind = "target" THEN "old" ELSE Absent]
    /\ pc = "idle"
    /\ calls = 0
    /\ before = files
    /\ old = ""
    /\ wire = NoBody
    /\ info = EmptyInfo
    /\ delta = NoStage
    /\ full = NoStage
    /\ bin = ""
    /\ fetched = <<>>
    /\ swapped = <<>>
    /\ ret = [info |-> EmptyInfo, err |-> ""]
    /\ answered = <<>>
    /\ now = StartTime
    /\ ticks = 0
    /\ cktime \in {MissingFile, FileWith(FormatRFC3339(StartTime + Hour))}
    /\ dir = (cktime.state # "missing")
    /\ run = NoRun
    /\ prev = Past(NoRun, "")
    /\ tree = NoTree
    /\ locked = {}
    /\ pub = NoPub
    /\ addressed = NoFile

DirNext ==
    \/ BackgroundRun
    \/ UpdateFetchInfo
    \/ UpdatePatch
    \/ UpdateFull
    \/ UpdateSwap
    \/ NextUpdateCall
    \/ SetUpdateTimeCall
    \/ ClearUpdateStateCall

DirSpec == DirInit /\ [][DirNext]_vars

(***************************************************************************)
(* Properties of Update()                                                  *)
(***************************************************************************)
\* The candidate b is the executable the manifest describes.
HashMatches(b) == BytesEqual(Sha256Sum(b), info.Sha256)
SignatureVerifies(b) ==
    VerifyPKCS1v15(u.PublicKey, Sha256Sum(b), info.Signature)

\* The errors Update() returns without having reached the swap.
PreSwapErrors ==
    {ErrOpen, ErrApi404, ErrBin404, ErrNilReadCloser, ErrJson, ErrBadHashLen,
     ErrNoSignature, ErrHashMismatch, ErrSignatureMismatch, ErrGzip}

\* C1: the swap is invoked only with bytes whose SHA-256 equals the
\* manifest's Sha256 and, with a public key configured, whose manifest
\* signature verifies under that key; a call that ends with a fetch, decode,
\* missing-signature, hash or signature error, or with no update, has
\* invoked no swap.
C1_SwapOnlyVerified ==
    /\ Len(swapped) <= 1
    /\ \A i \in 1..Len(swapped) :
         /\ HashMatches(swapped[i].bin)
         /\ u.PublicKey # NilKey => SignatureVerifies(swapped[i].bin)
    /\ (pc = "done" /\ ret.err \in PreSwapErrors) => swapped = <<>>
    /\ (pc = "done" /\ ret.err = "" /\ ret.info = EmptyInfo) => swapped = <<>>

C1_Witness ==
    /\ pc = "done"
    /\ swapped # <<>>
    /\ u.PublicKey # NilKey
    /\ ret.info.Version = V13

\* C2: when the patched binary's hash matches the manifest but its
\* signature does not verify under the configured key, Update() returns
\* ErrSignatureMismatch at the delta stage: the full URL is not fetched and
\* nothing is swapped.
C2_SignatureMismatchFatalAtDelta ==
    (/\ delta.bin # ""
     /\ HashMatches(delta.bin)
     /\ u.PublicKey # NilKey
     /\ ~SignatureVerifies(delta.bin))
    => /\ fetched = <<ManifestURL(u), DeltaURL(u, info)>>
       /\ swapped = <<>>
       /\ pc = "done" => ret = [info |-> EmptyInfo, err |-> ErrSignatureMismatch]

\* The binary at p is the one the call found there, or the complete
\* candidate the call swapped in, which is the one the manifest describes.
OldOrNew(p) ==
    \/ files[At(p)] = before[At(p)]
    \/ /\ Len(swapped) = 1
       /\ files[At(p)] = swapped[1].bin
       /\ files[At(p)] \in Bins
       /\ HashMatches(files[At(p)])

\* C3 as claimed: after Update() returns, whatever the outcome, each binary
\* path holds the complete old binary or the complete new candidate.
C3_OldOrNewWhateverTheOutcome ==
    pc = "done" => \A p \in {ExePath, GoldenPath} : OldOrNew(p)

\* C3 as amended: after Update() returns anything but the joint "update and
\* recovery errors", each binary path holds the complete old binary or the
\* complete new candidate, never a partial file and never no binary.
C3_OldOrNewUnlessRecoveryFails ==
    (pc = "done" /\ ret.err # ErrUpdateAndRecovery)
    => \A p \in {ExePath, GoldenPath} : OldOrNew(p)

C3_Witness ==
    /\ pc = "done"
    /\ swapped # <<>>
    /\ ret.err = ErrSwap
    /\ files[NewPath(ExePath)] = swapped[1].bin
    /\ files[At(ExePath)] = "old"

\* C4: with Target set, the file a successful Update() replaces is the file
\* at Target, the one opened as the old binary; the running executable is
\* replaced only when Target is empty.
C4_ReplacesTarget ==
    /\ \A i \in 1..Len(swapped) : swapped[i].path = getTargetAbsoluteDir(u)
    /\ (pc = "done" /\ ret.info # EmptyInfo)
       => files[At(getTargetAbsoluteDir(u))] = bin

\* C5: with a public key configured, a manifest of 32 hash bytes that
\* announces another version and whose Signature is absent or has zero
\* bytes makes Update() return the missing-signature error after the one
\* fetch of the manifest, with no swap.
C5_MissingSignatureStops ==
    (/\ wire.json = "object"
     /\ u.PublicKey # NilKey
     /\ DecodeText(wire.Version) \notin {<<>>, u.CurrentVersion}
     /\ DecodeBytes(wire.Sha256).len = Sha256Size
     /\ DecodeBytes(wire.Signature).len = 0)
    => /\ fetched = <<ManifestURL(u)>>
       /\ swapped = <<>>
       /\ pc = "done" => ret = [info |-> EmptyInfo, err |-> ErrNoSignature]

\* The errors of the delta stage other than the signature mismatch.
DeltaFallbackErrors == {ErrDiff404, ErrNilReadCloser, ErrPatch, ErrHashMismatch}

\* C6: a delta stage that failed by a fetch error, a patch error or a hash
\* mismatch is never the result of Update(): the full download was
\* attempted and the result is the full stage's, its error when it failed
\* and the swap of its candidate when it verified.
C6_DeltaFailureFallsBackToFull ==
    (pc = "done" /\ delta.err \in DeltaFallbackErrors)
    => /\ fetched = <<ManifestURL(u), DeltaURL(u, info), FullURL(u, info)>>
       /\ ret.err \notin {ErrDiff404, ErrPatch}
       /\ IF full.err # ""
          THEN /\ ret = [info |-> EmptyInfo, err |-> full.err]
               /\ swapped = <<>>
          ELSE /\ swapped = <<[path |-> EnginePath(up), bin |-> full.bin]>>
               /\ HashMatches(full.bin)

C6_Witness ==
    /\ pc = "done"
    /\ delta.err = ErrDiff404
    /\ full.err = ErrBin404
    /\ ret.err = ErrBin404

\* s is a prefix of t.
IsPrefix(s, t) == Len(s) <= Len(t) /\ \A i \in 1..Len(s) : s[i] = t[i]

\* C7: a call fetches at most the manifest, the delta and the full URL,
\* three different URLs, each once and in that order; the full URL only
\* after the delta stage failed; and nothing once the call has returned.
C7_FetchOrder ==
    /\ [](/\ IsPrefix(fetched,
                      <<ManifestURL(u), DeltaURL(u, info), FullURL(u, info)>>)
          /\ Cardinality({ManifestURL(u), DeltaURL(u, info), FullURL(u, info)}) = 3
          /\ Len(fetched) = 3 => delta.err # "")
    /\ [][pc = "done" => (fetched' = fetched \/ (calls' = calls + 1 /\ fetched' = <<>>))]_vars

C7_Witness ==
    /\ pc = "done"
    /\ Len(fetched) = 3
    /\ ret.err = ""

\* C8: with DiffURL empty the delta stage is skipped: the Requester is asked
\* for no delta URL and the full download follows the manifest.
C8_EmptyDiffURLSkipsDelta ==
    u.DiffURL = <<>>
    => /\ \A i \in 1..Len(fetched) : fetched[i] # DeltaURL(u, info)
       /\ Len(fetched) >= 2 => fetched[2] = FullURL(u, info)

\* C9 as claimed: a fetched manifest with no Version, or with the current
\* one, makes Update() return (empty Info, nil) after its one fetch, with no
\* signature check and no swap.
C9_NoUpdateForAnyManifest ==
    (/\ pc = "done"
     /\ wire.json = "object"
     /\ DecodeText(wire.Version) \in {<<>>, u.CurrentVersion})
    => /\ ret = [info |-> EmptyInfo, err |-> ""]
       /\ fetched = <<ManifestURL(u)>>
       /\ swapped = <<>>
       /\ files = before

\* C9 as amended: a fetched manifest with no Version, or with the current
\* Version and a Sha256 of 32 bytes, makes Update() return (empty Info, nil)
\* after its one fetch, with no signature check and no swap.
C9_NoUpdateForAcceptedManifest ==
    (/\ pc = "done"
     /\ wire.json = "object"
     /\ \/ DecodeText(wire.Version) = <<>>
        \/ /\ DecodeText(wire.Version) = u.CurrentVersion
           /\ DecodeBytes(wire.Sha256).len = Sha256Size)
    => /\ ret = [info |-> EmptyInfo, err |-> ""]
       /\ fetched = <<ManifestURL(u)>>
       /\ swapped = <<>>
       /\ files = before

C9_Witness ==
    /\ pc = "done"
    /\ wire.json = "object"
    /\ DecodeText(wire.Version) = u.CurrentVersion
    /\ u.PublicKey # NilKey
    /\ DecodeBytes(wire.Signature).nil
    /\ ret = [info |-> EmptyInfo, err |-> ""]

\* C10: in the full stage, a decompressed binary whose hash equals the
\* manifest's Sha256 but whose manifest signature does not verify under the
\* configured key makes Update() return ErrSignatureMismatch, with no
\* further fetch and no swap.
C10_FullSignatureMismatch ==
    (/\ full.bin # ""
     /\ HashMatches(full.bin)
     /\ u.PublicKey # NilKey
     /\ ~SignatureVerifies(full.bin))
    => /\ pc = "done"
       /\ ret = [info |-> EmptyInfo, err |-> ErrSignatureMismatch]
       /\ fetched = <<ManifestURL(u), DeltaURL(u, info), FullURL(u, info)>>
       /\ swapped = <<>>

C10_Witness ==
    /\ pc = "done"
    /\ full.bin = "new"
    /\ HashMatches(full.bin)
    /\ u.PublicKey # NilKey
    /\ delta.err = ErrDiff404
    /\ ret.err = ErrSignatureMismatch

\* C11: in the full stage, a decompressed binary whose hash differs from the
\* manifest's Sha256 makes Update() return ErrHashMismatch with no swap,
\* also when its signature would not verify either: the hash is checked
\* first.
C11_FullHashMismatchFirst ==
    (/\ full.bin # ""
     /\ ~HashMatches(full.bin))
    => /\ pc = "done"
       /\ full.err = ErrHashMismatch
       /\ ret = [info |-> EmptyInfo, err |-> ErrHashMismatch]
       /\ swapped = <<>>

C11_Witness ==
    /\ pc = "done"
    /\ full.bin = "bad"
    /\ ~HashMatches(full.bin)
    /\ u.PublicKey # NilKey
    /\ ~info.Signature.nil
    /\ ~SignatureVerifies(full.bin)
    /\ ret.err = ErrHashMismatch

(***************************************************************************)
(* Properties of BackgroundRun() and the scheduler                         *)
(***************************************************************************)
\* The current BackgroundRun() call follows at once a call that called
\* SetUpdateTime and whose Update() failed: less than an hour, short of a
\* second, has passed, nobody touched the cooldown file in between, and
\* ForceCheck is unset.
RetryAtOnce ==
    /\ calls >= 2
    /\ prev.set
    /\ prev.failed
    /\ run.at - prev.at < Hour - Second
    /\ run.file = prev.left
    /\ ~u.ForceCheck

CooldownUnusable ==
    \/ cktime.state = "unreadable"
    \/ cktime.state = "readable" /\ ParseRFC3339(cktime.text).err

\* C13: with a CurrentVersion other than "dev" and a cooldown file that
\* cannot be read or parsed, BackgroundRun() called again and again with
\* ForceCheck unset while time passes eventually fetches the manifest.
C13_UnusableCooldownNeverBlocks ==
    (u.CurrentVersion # VDev /\ ~u.ForceCheck /\ CooldownUnusable)
        ~> (fetched # <<>>)

\* The instant NextUpdate() reads back while the cooldown file is as the
\* current call's SetUpdateTime wrote it.
ReadBack == NextUpdate(u, cktime, now)

\* C14: after SetUpdateTime at the instant t wrote the cooldown file, the
\* instant NextUpdate() reads back lies in
\* [t + CheckTime h, t + (CheckTime + RandomizeTime) h].
C14_StoredWithinWindow ==
    run.wrote
    => /\ run.at + u.CheckTime * Hour <= ReadBack
       /\ ReadBack <= run.at + (u.CheckTime + u.RandomizeTime) * Hour

\* C14 as it holds: the instant read back is a whole second and lies in
\* (t + CheckTime h - 1 s, t + (CheckTime + RandomizeTime) h]; the
\* RFC 3339 text drops the fraction of the second.
C14_StoredWithinWindowToTheSecond ==
    run.wrote
    => /\ ReadBack % Second = 0
       /\ run.at + u.CheckTime * Hour - Second < ReadBack
       /\ ReadBack <= run.at + (u.CheckTime + u.RandomizeTime) * Hour

C14_Witness ==
    /\ run.wrote
    /\ run.at % Second # 0
    /\ u.CheckTime >= 1
    /\ run.jitter >= 1
    /\ ReadBack < run.at + (u.CheckTime + run.jitter) * Hour

\* C15: the jitter SetUpdateTime adds is a whole number of hours drawn from
\* 0..RandomizeTime: every value of the range can be drawn, none outside
\* of it, and the instant written is CheckTime + jitter hours after now.
C15_JitterRange ==
    run.set
    => /\ run.draws = 0..u.RandomizeTime
       /\ run.jitter \in run.draws
       /\ run.wrote
          => \E j \in 0..u.RandomizeTime :
               ReadBack = ((run.at + (u.CheckTime + j) * Hour) \div Second)
                              * Second

C15_Witness ==
    /\ run.wrote
    /\ u.RandomizeTime >= 1
    /\ run.jitter = u.RandomizeTime
    /\ ReadBack - (run.at \div Second) * Second
           = (u.CheckTime + u.RandomizeTime) * Hour

\* C16: NextUpdate() is the zero instant when the cooldown file is
\* missing, now + 1000 hours when the file cannot be read or holds no
\* RFC 3339 timestamp, and otherwise the very instant the file names.
C16_NextUpdateReadsCooldown ==
    /\ cktime.state = "missing" => NextUpdate(u, cktime, now) = ZeroTime
    /\ cktime.state = "unreadable"
       => NextUpdate(u, cktime, now) = now + 1000 * Hour
    /\ (cktime.state = "readable" /\ cktime.text.layout # "rfc3339")
       => NextUpdate(u, cktime, now) = now + 1000 * Hour
    /\ (cktime.state = "readable" /\ cktime.text.layout = "rfc3339")
       => NextUpdate(u, cktime, now) = cktime.text.sec * Second

C16_Witness ==
    /\ cktime.state = "unreadable"
    /\ ticks >= 1
    /\ pc = "done"
    /\ run.mkdir
    /\ ~u.ForceCheck
    /\ ~run.want
    /\ u.CurrentVersion # VDev

\* The Updater with ForceCheck set to f.
Forced(f) == [u EXCEPT !.ForceCheck = f]

\* C17: with CurrentVersion "dev", WantUpdate() is false whatever the
\* cooldown file and ForceCheck are, and BackgroundRun() fetches nothing,
\* does not write the cooldown file and swaps nothing.
C17_DevNeverUpdates ==
    u.CurrentVersion = VDev
    => /\ \A f \in BOOLEAN : ~WantUpdate(Forced(f), cktime, now)
       /\ ~run.want
       /\ ~run.set
       /\ calls >= 1 => cktime = run.file
       /\ fetched = <<>>
       /\ swapped = <<>>
       /\ files = before
       /\ pc \in {"idle", "done"}

C17_Witness ==
    /\ u.CurrentVersion = VDev
    /\ calls = 2
    /\ pc = "done"
    /\ u.ForceCheck
    /\ run.mkdir
    /\ cktime.state = "missing"
    /\ ret = [info |-> EmptyInfo, err |-> ""]

\* C18: with a CurrentVersion other than "dev", WantUpdate() is true
\* whenever ForceCheck is set; with ForceCheck unset it is false exactly
\* when NextUpdate() is after now, and true also when the two are equal.
\* BackgroundRun() goes on or returns accordingly.
C18_WantUpdateTable ==
    u.CurrentVersion # VDev
    => /\ WantUpdate(Forced(TRUE), cktime, now)
       /\ WantUpdate(Forced(FALSE), cktime, now)
            <=> ~(NextUpdate(u, cktime, now) > now)
       /\ run.mkdir
          => (run.want
                <=> (u.ForceCheck \/ NextUpdate(u, run.file, run.at) <= run.at))

C18_Witness ==
    /\ u.CurrentVersion # VDev
    /\ run.mkdir
    /\ ~u.ForceCheck
    /\ run.file.state = "readable"
    /\ NextUpdate(u, run.file, run.at) = run.at
    /\ run.want
    /\ fetched # <<>>

\* The current BackgroundRun() call began in a state in which WantUpdate()
\* is false: a "dev" build, or ForceCheck unset and a cooldown file that
\* names a later instant or, being unusable, stands for one.
Declines ==
    /\ calls >= 1
    /\ \/ u.CurrentVersion = VDev
       \/ /\ ~u.ForceCheck
          /\ \/ run.file.state = "unreadable"
             \/ run.file.state = "readable"
                  /\ run.file.text.layout # "rfc3339"
             \/ run.file.state = "readable"
                  /\ run.file.text.layout = "rfc3339"
                  /\ run.file.text.sec * Second > run.at

\* What BackgroundRun() leaves alone when it declines.
NothingDone ==
    /\ fetched = <<>>
    /\ swapped = <<>>
    /\ cktime = run.file
    /\ files = before
    /\ ~run.set

\* C19: when WantUpdate() is false, BackgroundRun() returns (empty Info,
\* nil) and, apart from the state directory, changes nothing.
C19_DeclineReturnsNil ==
    Declines
    => /\ pc = "done"
       /\ ret = [info |-> EmptyInfo, err |-> ""]
       /\ NothingDone

\* C19 as it holds: the same once os.MkdirAll made the state directory;
\* when it fails its error is returned, and nothing is done either.
C19_DeclineReturnsNilAfterMkdir ==
    Declines
    => /\ pc = "done"
       /\ NothingDone
       /\ run.mkdir => dir /\ ret = [info |-> EmptyInfo, err |-> ""]
       /\ ~run.mkdir => ret = [info |-> EmptyInfo, err |-> ErrMkdir]

C19_Witness ==
    /\ Declines
    /\ u.CurrentVersion # VDev
    /\ run.file.state = "readable"
    /\ run.file.text.layout = "rfc3339"
    /\ run.mkdir
    /\ prev.set
    /\ ret = [info |-> EmptyInfo, err |-> ""]

\* The Requester answered the i-th fetch of the call with a nil stream and
\* a nil error.
NilAnswer(i) ==
    /\ i <= Len(answered)
    /\ answered[i] = [rc |-> "nil", err |-> ""]

\* C20: a fetch the Requester answers with a nil stream and a nil error
\* fails with "Fetch was expected to return non-nil ReadCloser"; when it
\* is the manifest fetch, the call returns that error with no further
\* fetch and no swap.
C20_NilReadCloser ==
    /\ NilAnswer(1)
       => /\ pc = "done"
          /\ ret = [info |-> EmptyInfo,
                    err |-> "Fetch was expected to return non-nil ReadCloser"]
          /\ fetched = <<ManifestURL(u)>>
          /\ swapped = <<>>
          /\ files = before
    /\ NilAnswer(2)
       => /\ delta = [bin |-> "", err |-> ErrNilReadCloser]
          /\ Len(fetched) = 2 => pc = "full" /\ swapped = <<>>
    /\ NilAnswer(3)
       => /\ full = [bin |-> "", err |-> ErrNilReadCloser]
          /\ pc = "done"
          /\ ret = [info |-> EmptyInfo, err |-> ErrNilReadCloser]
          /\ swapped = <<>>

C20_Witness ==
    /\ NilAnswer(1)
    /\ run.set
    /\ pc = "done"
    /\ ret.err = ErrNilReadCloser

(***************************************************************************)
(* Properties of the manifest, the results of Update() and the URLs        *)
(***************************************************************************)
\* The Version and the Sha256 of the manifest the Requester delivered.
WireVersion == DecodeText(wire.Version)
WireSha256 == DecodeBytes(wire.Sha256)

\* The manifest delivered is a JSON object, and fetchInfo accepted it or
\* rejected it for its hash.
Delivered == wire.json = "object"
Rejected == Delivered /\ pc = "done" /\ ret.err = ErrBadHashLen
Accepted == Delivered /\ ~Rejected

\* A valid manifest: no hash byte and no Version, or 32 hash bytes.
ValidManifest ==
    \/ WireSha256.len = 0 /\ WireVersion = <<>>
    \/ WireSha256.len = 32

\* C21 as claimed: every manifest fetchInfo accepts is valid, and every
\* other manifest is rejected with an error, with no further fetch and no
\* swap.
C21_AcceptedManifestIsValid ==
    /\ Accepted => ValidManifest
    /\ (Delivered /\ ~ValidManifest)
       => /\ Rejected
          /\ fetched = <<ManifestURL(u)>>
          /\ swapped = <<>>

\* C21 as it holds: every manifest fetchInfo accepts has no Version or 32
\* hash bytes and is decoded as delivered; every other manifest, one with
\* a Version and a hash of another length, is rejected with an error, with
\* no further fetch and no swap.
C21_AcceptedManifestHasNoVersionOrFullHash ==
    /\ Accepted
       => /\ WireVersion = <<>> \/ WireSha256.len = 32
          /\ info.Version = WireVersion
          /\ BytesEqual(info.Sha256, WireSha256)
    /\ (Delivered /\ WireVersion # <<>> /\ WireSha256.len # 32)
       => /\ Rejected
          /\ info = EmptyInfo
          /\ ret.info = EmptyInfo
          /\ fetched = <<ManifestURL(u)>>
          /\ swapped = <<>>
          /\ files = before

C21_Witness ==
    /\ Accepted
    /\ pc = "done"
    /\ WireVersion = <<>>
    /\ WireSha256.len = 16
    /\ ret = [info |-> EmptyInfo, err |-> ""]

\* What the replacement of the binary by the current call left behind: the
\* candidate moved in and no sibling left; the candidate, whole or in part,
\* left in the sibling and the binary as it was; or no binary at its path.
SwapCompleted ==
    /\ swapped # <<>>
    /\ files[NewPath(EnginePath(up))] = Absent
    /\ files[At(EnginePath(up))] = swapped[1].bin
SwapFailedAndRecovered ==
    /\ swapped # <<>>
    /\ files[NewPath(EnginePath(up))] # Absent
    /\ files[At(EnginePath(up))] = before[At(EnginePath(up))]
SwapAndRecoveryFailed ==
    /\ swapped # <<>>
    /\ before[At(EnginePath(up))] # Absent
    /\ files[At(EnginePath(up))] = Absent

\* C22: Update() returns the manifest Info, with its non-empty Version,
\* exactly when the swap completed without error; when the swap failed and
\* the binary is back in place it returns (empty Info, the swap error);
\* when the recovery failed as well it returns (empty Info, the error
\* "update and recovery errors" with both errors quoted).
C22_UpdateResult ==
    pc = "done"
    => /\ ret.info # EmptyInfo <=> SwapCompleted
       /\ SwapCompleted
          => /\ ret = [info |-> info, err |-> ""]
             /\ ret.info.Version # <<>>
             /\ ret.info.Version = WireVersion
       /\ SwapFailedAndRecovered
          => /\ ret.info = EmptyInfo
             /\ ret.err \in {ErrWrite, ErrSwap}
       /\ SwapAndRecoveryFailed
          => ret = [info |-> EmptyInfo,
                    err |-> "update and recovery errors: \"rename: permission denied\" \"rename back: permission denied\""]
       /\ swapped # <<>>
          => SwapCompleted \/ SwapFailedAndRecovered \/ SwapAndRecoveryFailed

C22_Witness ==
    /\ pc = "done"
    /\ SwapAndRecoveryFailed
    /\ ret.info = EmptyInfo
    /\ ret.err = Errorf(ErrSwap, ErrRecover)

\* The text s with every "+" written "%2B"; the names and versions of the
\* model hold no other token that escaping changes.
PlusEscaped(s) == [i \in 1..Len(s) |-> IF s[i] = "+" THEN "%2B" ELSE s[i]]

\* C27: the URLs a call fetches are api_url + esc(cmd_name) + "/" +
\* esc(platform) + ".json", then diff_url + esc(cmd_name) + "/" +
\* esc(current_version) + "/" + esc(new_version) + "/" + esc(platform),
\* then bin_url + esc(cmd_name) + "/" + esc(new_version) + "/" +
\* esc(platform) + ".gz", with every "+" of a name or version as "%2B".
C27_FetchedURLs ==
    /\ Len(fetched) >= 1
       => fetched[1] = u.ApiURL \o PlusEscaped(u.CmdName) \o <<"/">>
                           \o <<"linux-amd64">> \o <<".json">>
    /\ Len(fetched) >= 2
       => fetched[2] = u.DiffURL \o PlusEscaped(u.CmdName) \o <<"/">>
                           \o PlusEscaped(u.CurrentVersion) \o <<"/">>
                           \o PlusEscaped(WireVersion) \o <<"/">>
                           \o <<"linux-amd64">>
    /\ Len(fetched) >= 3
       => fetched[3] = u.BinURL \o PlusEscaped(u.CmdName) \o <<"/">>
                           \o PlusEscaped(WireVersion) \o <<"/">>
                           \o <<"linux-amd64">> \o <<".gz">>
    /\ Len(fetched) <= 3
    /\ \A i \in 1..Len(fetched) :
         \A k \in 1..Len(fetched[i]) : fetched[i][k] # "+"

C27_Witness ==
    /\ Len(fetched) = 3
    /\ u.CmdName = <<"myapp", "+", "foo">>
    /\ u.CurrentVersion = <<"1.2", "+", "foobar">>
    /\ WireVersion = <<"1.3", "+", "rc1">>
    /\ fetched[1] = <<"http://api.updates.yourdomain.com/", "myapp", "%2B",
                      "foo", "/", "linux-amd64", ".json">>
    /\ fetched[2] = <<"http://diff.updates.yourdomain.com/", "myapp", "%2B",
                      "foo", "/", "1.2", "%2B", "foobar", "/", "1.3", "%2B",
                      "rc1", "/", "linux-amd64">>

\* C28: a BackgroundRun() whose WantUpdate() was true and whose CanUpdate
\* failed returns that error and does nothing else: SetUpdateTime is not
\* called, the cooldown file stays as it was, nothing is fetched and
\* nothing swapped; SetUpdateTime and Update() are reached only after
\* CanUpdate succeeded, SetUpdateTime first.
C28_CanUpdateFailureStops ==
    /\ (run.want /\ ~run.can)
       => /\ pc = "done"
          /\ ret = [info |-> EmptyInfo,
                    err |-> "open .myapp.new: permission denied"]
          /\ ~run.set
          /\ cktime = run.file
          /\ fetched = <<>>
          /\ swapped = <<>>
          /\ files = before
    /\ run.set => run.want /\ run.can
    /\ (fetched # <<>> \/ swapped # <<>> \/ pc \notin {"idle", "done"})
       => run.can /\ run.set

C28_Witness ==
    /\ run.want
    /\ ~run.can
    /\ calls = 2
    /\ prev.set
    /\ prev.wrote
    /\ u.ForceCheck
    /\ cktime = prev.left
    /\ ret.err = ErrCanUpdate

(***************************************************************************)
(* Properties of the release builder                                       *)
(***************************************************************************)
\* The current call of the builder had a binary to read, and reached
\* CreateUpdate with an output directory to write the manifest in.
Publishing ==
    /\ pub.n >= 1
    /\ pub.args.app.state \in {"readable", "dir"}
    /\ tree.out

\* The binary published, and what a Requester answers when it serves body.
PublishedBin == pub.args.app.bytes
Served(body) == [rc |-> "stream", err |-> "", body |-> body]

\* The manifest a client decodes from the <platform>.json of the tree.
ServedInfo == fetchInfo(Served(tree.json))

\* C23: the manifest CreateUpdate writes for the binary B with the private
\* key K makes a client with the public key of K accept the candidate B,
\* by hash and by signature, out of a delta as out of a full download,
\* and reject every candidate of other bytes.
C23_BuilderAndClientAgree ==
    (Publishing /\ pub.args.key # NilKey /\ u.PublicKey = pub.args.key)
    => /\ ServedInfo.err = ""
       /\ ServedInfo.info.Version = pub.args.version
       /\ verifySha(PublishedBin, ServedInfo.info.Sha256)
       /\ verifySignature(u.PublicKey, PublishedBin, ServedInfo.info.Signature)
       /\ \A b \in Bins \cup {"garbled"} :
            /\ fetchAndVerifyFullBin(u, ServedInfo.info, Served(Gzip(b)))
                 = IF b = PublishedBin THEN [bin |-> b, err |-> ""]
                   ELSE [bin |-> "", err |-> ErrHashMismatch]
            /\ \A a \in Bins :
                 fetchAndVerifyPatch(u, ServedInfo.info, Served(Diff(a, b)),
                                     a, FALSE)
                   = IF b = PublishedBin THEN [bin |-> b, err |-> ""]
                     ELSE [bin |-> "", err |-> ErrHashMismatch]

C23_Witness ==
    /\ Publishing
    /\ pub.args.via = "cli"
    /\ pub.args.keyFile = "pem"
    /\ u.PublicKey = pub.args.key
    /\ PublishedBin = "new"
    /\ pub.args.version = V13
    /\ pub.exit = "exit 0"
    /\ DeltaAt(tree, V12, V13) = Diff("old", "new")
    /\ fetchAndVerifyPatch(u, ServedInfo.info,
                           Served(DeltaAt(tree, V12, V13)), "old", FALSE)
         = [bin |-> "new", err |-> ""]

\* The current call of the builder reached CreateUpdate, which returned.
Completed == Publishing /\ pub.exit \in {"returned", "exit 0"}

\* gunzip of a .gz of the tree, as the client's fetchBin does it.
Gunzip(file) == fetchBin(Served(file))

\* C24: after CreateUpdate(v, src, p, out, k) returned, <out>/<p>.json and
\* <out>/<v>/<p>.gz exist, the latter gunzips to src, and every directory
\* D other than v that was directly under <out> before the call and holds
\* <p>.gz has the file <out>/<D>/<v>/<p>, which applied as a patch to
\* gunzip(<out>/<D>/<p>.gz) gives src.
C24_PublishedTree ==
    Completed
    => /\ tree.json.json = "object"
       /\ Gunzip(tree.gz[pub.args.version]) = [bin |-> PublishedBin, err |-> ""]
       /\ \A D \in pub.before.dirs \ {pub.args.version} :
            pub.before.gz[D].kind # "absent"
            => /\ DeltaAt(tree, D, pub.args.version).kind # "absent"
               /\ Patch(Gunzip(tree.gz[D]).bin,
                        DeltaAt(tree, D, pub.args.version), FALSE)
                    = [bin |-> PublishedBin, err |-> ""]

\* The current call of the builder follows one with the same version,
\* binary and key, which found or made the output directory.
SameInputsAgain ==
    /\ pub.n >= 2
    /\ pub.args.version = pub.prev.version
    /\ pub.args.app = pub.prev.app
    /\ pub.args.key = pub.prev.key
    /\ pub.args.via = pub.prev.via
    /\ pub.before.out

\* C25: a second call of CreateUpdate with the inputs of the first leaves
\* the manifest, the .gz and every delta as the first call left them, and
\* adds no file.
C25_Idempotent ==
    SameInputsAgain
    => /\ tree.json = pub.before.json
       /\ tree.gz = pub.before.gz
       /\ tree.delta = pub.before.delta
       /\ tree = pub.before

C25_Witness ==
    /\ SameInputsAgain
    /\ Completed
    /\ pub.args.version = V12
    /\ PublishedBin = "new"
    /\ pub.args.key # NilKey
    /\ DeltaAt(tree, V13, V12) = Diff("old", "new")
    /\ DeltaAt(tree, V12, V13) = Diff("old", "old")
    /\ tree = pub.before

\* C26: whatever was published, the same version twice included, no
\* version has a delta to itself: no file <out>/<v>/<v>/<platform> exists.
C26_NoSelfDelta ==
    \A v \in DirNames :
      /\ DeltaAt(tree, v, v).kind = "absent"
      /\ <<v, v>> \notin tree.ddirs

C26_Witness ==
    /\ pub.n = 2
    /\ Completed
    /\ pub.args.version = V13
    /\ pub.prev.version = V13
    /\ tree.gz[V13] = Gzip("new")
    /\ pub.before.gz[V13] = Gzip("old")
    /\ DeltaAt(tree, V12, V13) = Diff("old", "new")
    /\ DeltaAt(tree, V13, V13).kind = "absent"

\* C29: a call of the builder with a source binary that is missing or
\* cannot be read aborts before it has written anything: the manifest is
\* as it was, and no .gz and no delta is made or changed.
C29_UnreadableSourceWritesNothing ==
    (pub.n >= 1 /\ pub.args.app.state \in {"missing", "unreadable"})
    => /\ pub.exit \in {"panic", "exit 1"}
       /\ tree.json = pub.before.json
       /\ tree.gz = pub.before.gz
       /\ tree.delta = pub.before.delta

\* C30: a run of the command with a key file given by -k/--key that cannot
\* be read or parsed exits with a status other than zero and publishes
\* nothing; no unsigned manifest is written in place of the signed one.
C30_BadKeyFileAborts ==
    (/\ pub.n >= 1
     /\ pub.args.via = "cli"
     /\ pub.args.keyFile \in {"unreadable", "unparsable"})
    => /\ pub.exit \in {"exit 1", "panic"}
       /\ tree.json = pub.before.json
       /\ tree.gz = pub.before.gz
       /\ tree.delta = pub.before.delta


(***************************************************************************)
(* Properties of the state directory                                       *)
(***************************************************************************)
\* The file cktime in the subdirectory Dir of the directory of the
\* executable: <exec_dir>/<dir>/cktime.
CooldownFile ==
    FilepathClean(FilepathDir(Filename(getTargetAbsoluteDir(u)))
                  \o <<"/">> \o u.Dir \o <<"/", "cktime">>)

\* C31: whatever the configured Dir, with a path separator at its end or
\* without one, a call of NextUpdate(), SetUpdateTime() or
\* ClearUpdateState() addresses the file <exec_dir>/<dir>/cktime, which
\* lies in the state directory that BackgroundRun() makes, and the three
\* functions address the same file.
C31_OneCooldownFile ==
    /\ NextUpdatePath(u) = SetUpdateTimePath(u)
    /\ NextUpdatePath(u) = ClearUpdateStatePath(u)
    /\ addressed.op # "none"
       => /\ addressed.path = CooldownFile
          /\ FilepathDir(addressed.path) = StateDir(u)
====
